---- MODULE Spec2Model ----
(***************************************************************************)
(* Model of the resume document edit pipeline:                             *)
(*   services/agents/document_editor_agent.py  (DocumentEditorAgent)       *)
(*   services/orchestrator.py                  (frozen mapping, enrichment)*)
(*                                                                         *)
(* A document is the sequence doc.paragraphs.  Paragraph indices are the   *)
(* 0-based indices of the Python code; Para(d, i) reads paragraph i.       *)
(* A text is a sequence of tokens: the bullet glyph, a blank, or a word.   *)
(* Paragraph styles and the keyword heuristics of _is_bullet_paragraph are *)
(* outside the token alphabet: the modelled documents use plain styles and *)
(* texts without numbered-list prefixes or action keywords.                *)
(***************************************************************************)
EXTENDS Integers, Sequences, FiniteSets, TLC

\* the position in enhance_resume / apply_plan (the other variables are
\* declared with the machine)
VARIABLE pc

\* ------------------------------------------------------------------ bounds
MaxPlanLen == 2

\* ------------------------------------------------------- Python's None
None == "None"
NoneIdx == -1
NoHash == <<>>

Min(a, b) == IF a <= b THEN a ELSE b
Max(a, b) == IF a >= b THEN a ELSE b

\* --------------------------------------------------------------- texts
\* the six characters of the regex class in _strip_leading_bullet; "BULLET" is
\* U+2022, "WBULLET" U+25E6, "SQUARE" U+25AA and "WSQUARE" U+25AB
StripGlyphs == {"BULLET", "-", "*", "WBULLET", "SQUARE", "WSQUARE"}
\* characters tested with startswith in _is_bullet_paragraph (method 1)
StartGlyphs == {"BULLET", "-", "*", "WBULLET"}

IsSpace(t) == t = " "

RECURSIVE LStrip(_)
LStrip(s) == IF s # <<>> /\ IsSpace(Head(s)) THEN LStrip(Tail(s)) ELSE s

RECURSIVE RStrip(_)
RStrip(s) ==
  IF s # <<>> /\ IsSpace(s[Len(s)]) THEN RStrip(SubSeq(s, 1, Len(s) - 1)) ELSE s

\* str.strip()
Strip(s) == RStrip(LStrip(s))

\* str.lower() on one token
LowerTok(t) ==
  CASE t = "A" -> "a"
    [] t = "B" -> "b"
    [] t = "C" -> "c"
    [] t = "Tech" -> "tech"
    [] t = "Skills" -> "skills"
    [] t = "Acme" -> "acme"
    [] OTHER -> t

Lower(s) == [k \in 1..Len(s) |-> LowerTok(s[k])]

\* re.sub(r"\s+", " ", s)
RECURSIVE CollapseSpaces(_)
CollapseSpaces(s) ==
  IF s = <<>> THEN <<>>
  ELSE IF IsSpace(Head(s)) THEN <<" ">> \o CollapseSpaces(LStrip(s))
  ELSE <<Head(s)>> \o CollapseSpaces(Tail(s))

StartsWithAny(s, glyphs) == s # <<>> /\ Head(s) \in glyphs

\* needle in hay (contiguous sub-sequence of tokens)
Contains(hay, needle) ==
  \E k \in 0..(Len(hay) - Len(needle)) :
     SubSeq(hay, k + 1, k + Len(needle)) = needle

\* a digest that is the same for every text
Sha256Collides(s) == <<"sha256">>

\* hashlib.sha256(text).hexdigest(): injective on the modelled texts,
\* distinct from every text and never empty
Sha256(s) == <<"sha256">> \o s

\* ------------------------------------------------ DocumentEditorAgent: text
\* _strip_leading_bullet: re.sub(r'^[glyph]\s*', '', text.strip())
StripLeadingBullet(text) ==
  LET t == Strip(text)
  IN IF StartsWithAny(t, StripGlyphs) THEN LStrip(Tail(t)) ELSE t

\* _clean_bullet_text (called by _ensure_single_bullet_prefix)
CleanBulletText(text) ==
  LET t == StripLeadingBullet(text)
  IN IF StartsWithAny(t, {"BULLET"}) THEN t ELSE <<"BULLET", " ">> \o t

EnsureSingleBulletPrefix(text) == CleanBulletText(text)

\* _normalize_bullet_text
NormalizeBulletText(text) ==
  Strip(CollapseSpaces(Lower(StripLeadingBullet(text))))

\* --------------------------------------------------------- the document
\* A paragraph: its text, whether its XML carries w:numPr, the identity of
\* its XML element (0..N-1 for the paragraphs of the input file, larger for
\* created ones) and the role it belongs to (the role_span_id of its tag, or
\* the role_id of the insert_bullet edit that created it).
NewPara(text, numPr, id, owner) ==
  [text |-> text, numPr |-> numPr, id |-> id, owner |-> owner]

Para(d, i) == d[i + 1]
NumParas(d) == Len(d)
Indices(d) == 0..(Len(d) - 1)

\* doc.add_paragraph() followed by doc._body._body.insert(idx, element): the
\* body holds the paragraphs and a final sectPr, so the element lands at
\* paragraph position min(idx, N), N the number of paragraphs before the call
InsertParagraph(d, idx, p) ==
  LET pos == Min(idx, Len(d))
  IN SubSeq(d, 1, pos) \o <<p>> \o SubSeq(d, pos + 1, Len(d))

\* parent.remove(elem) for every index of the set
RemoveParagraphs(d, idxs) ==
  LET keep(k) == (k - 1) \notin idxs
      RECURSIVE Go(_)
      Go(k) == IF k > Len(d) THEN <<>>
               ELSE (IF keep(k) THEN <<d[k]>> ELSE <<>>) \o Go(k + 1)
  IN Go(1)

SetText(d, i, text) == [d EXCEPT ![i + 1].text = text]

\* _has_auto_bullets
HasAutoBullets(p) == p.numPr

\* _is_bullet_paragraph(paragraph, text): glyph at the start, numPr, or the
\* regex ^\s*[glyph]\s+
IsBulletParagraph(p, text) ==
  \/ StartsWithAny(text, StartGlyphs)
  \/ p.numPr
  \/ LET t == LStrip(text)
     IN StartsWithAny(t, StripGlyphs) /\ Len(t) >= 2 /\ IsSpace(t[2])

\* range(role_start, min(role_end + 1, len(doc.paragraphs)))
SpanRange(d, role_start, role_end) ==
  role_start..(Min(role_end + 1, Len(d)) - 1)

\* _is_duplicate_bullet_in_span
IsDuplicateBulletInSpan(d, role_start, role_end, candidate_text) ==
  LET norm_new == NormalizeBulletText(candidate_text)
  IN /\ norm_new # <<>>
     /\ \E i \in SpanRange(d, role_start, role_end) :
          LET p == Para(d, i)
              txt == Strip(p.text)
          IN /\ txt # <<>>
             /\ IsBulletParagraph(p, txt)
             /\ NormalizeBulletText(txt) = norm_new

\* _role_uses_auto_bullets
RoleUsesAutoBullets(d, role_start, role_end) ==
  \E i \in SpanRange(d, role_start, role_end) :
     LET p == Para(d, i)
     IN /\ Strip(p.text) # <<>>
        /\ IsBulletParagraph(p, Strip(p.text))
        /\ p.numPr

\* _dedupe_bullets_in_span: the indices of the later duplicates, removed
DedupeBulletsInSpan(d, role_start, role_end) ==
  LET isB(i) == /\ Strip(Para(d, i).text) # <<>>
                /\ IsBulletParagraph(Para(d, i), Strip(Para(d, i).text))
      norm(i) == NormalizeBulletText(Strip(Para(d, i).text))
      rng == SpanRange(d, role_start, role_end)
      to_remove == {i \in rng : isB(i) /\
                      \E j \in rng : j < i /\ isB(j) /\ norm(j) = norm(i)}
  IN RemoveParagraphs(d, to_remove)

\* ------------------------------------------------------- generic sorting
\* sorted(seq, key): stable, as Python's sorted
\* keys[k] is the key of seq[k]; an element moves left only past elements
\* of strictly greater key
SortedByKey(seq, keys) ==
  LET RECURSIVE Ins(_, _)
      Ins(sorted, n) ==
        IF sorted = <<>> THEN <<n>>
        ELSE IF keys[n] < keys[sorted[Len(sorted)]]
             THEN Ins(SubSeq(sorted, 1, Len(sorted) - 1), n)
                    \o <<sorted[Len(sorted)]>>
             ELSE sorted \o <<n>>
      RECURSIVE Sort(_)
      Sort(n) == IF n = 0 THEN <<>> ELSE Ins(Sort(n - 1), n)
      order == Sort(Len(seq))
  IN [k \in 1..Len(seq) |-> seq[order[k]]]

\* sorted(ints)
SortedInts(seq) == SortedByKey(seq, seq)

\* sorted(role_spans, key=lambda s: s.start_index)
SortedSpans(role_spans) ==
  SortedByKey(role_spans,
              [k \in 1..Len(role_spans) |-> role_spans[k].start_index])

\* ------------------------------------------------------ the resume outline
\* ResumeAST of the modelled resume: two roles, two bullets under each
Roles ==
  << [id |-> "r1", title |-> <<"eng">>, company |-> <<"Acme">>],
     [id |-> "r2", title |-> <<"mgr">>, company |-> <<"beta">>] >>

Bullets ==
  << [id |-> "b1", role_id |-> "r1", text |-> <<"a">>],
     [id |-> "b2", role_id |-> "r1", text |-> <<"b">>],
     [id |-> "b3", role_id |-> "r2", text |-> <<"a">>],
     [id |-> "b4", role_id |-> "r2", text |-> <<"d">>] >>

RoleIds == {Roles[k].id : k \in 1..Len(Roles)}
BulletIds == {Bullets[k].id : k \in 1..Len(Bullets)}

RoleBullets(role_id) == SelectSeq(Bullets, LAMBDA b : b.role_id = role_id)

\* ---------------------------------------- structure tags -> the mappings
\* clamp of a tagged span to the document bounds
ClampStart(d, span) == Max(0, Min(span.start_index, Len(d) - 1))
ClampEnd(d, span) == Max(ClampStart(d, span), Min(span.end_index, Len(d) - 1))

\* sorted indices of the bullet-labelled tags inside [s, e]
BulletIndicesIn(tag_list, s, e) ==
  LET sel == SelectSeq(tag_list,
                       LAMBDA t : t.label = "bullet" /\ s <= t.paragraph_index
                                   /\ t.paragraph_index <= e)
  IN SortedInts([k \in 1..Len(sel) |-> sel[k].paragraph_index])

\* zip(role_bullets, indices) over the roles paired with spans by position:
\* the bullet ids that get an index, and the index of each
\* (idx_lists[k] holds the bullet indices found in the k-th span)
ZipBullets(idx_lists) ==
  LET pairs == UNION { { <<RoleBullets(Roles[k].id)[j].id, idx_lists[k][j]>> :
                          j \in 1..Min(Len(RoleBullets(Roles[k].id)),
                                       Len(idx_lists[k])) } :
                       k \in 1..Min(Len(Roles), Len(idx_lists)) }
  IN [b \in {pr[1] : pr \in pairs} |->
        (CHOOSE pr \in pairs : pr[1] = b)[2]]

\* DocumentEditorAgent._build_mappings_from_tags: role_mapping
RoleMappingFromTags(d, tags) ==
  LET role_spans == SortedSpans(tags.role_spans)
  IN [r \in {Roles[k].id : k \in 1..Min(Len(Roles), Len(role_spans))} |->
        LET k == CHOOSE k \in 1..Len(Roles) : Roles[k].id = r
        IN <<ClampStart(d, role_spans[k]), ClampEnd(d, role_spans[k])>>]

\* DocumentEditorAgent._build_mappings_from_tags: bullet_mapping
BulletMappingFromTags(d, tags) ==
  LET role_spans == SortedSpans(tags.role_spans)
  IN ZipBullets([k \in 1..Len(role_spans) |->
                   BulletIndicesIn(tags.paragraph_tags,
                                   ClampStart(d, role_spans[k]),
                                   ClampEnd(d, role_spans[k]))])

\* ResumeEnhancementOrchestrator._build_frozen_mapping: bullet_index_map
\* (spans in the tagger's order, bounds as tagged)
FrozenBulletIndexMap(tags) ==
  ZipBullets([k \in 1..Len(tags.role_spans) |->
                BulletIndicesIn(tags.paragraph_tags,
                                tags.role_spans[k].start_index,
                                tags.role_spans[k].end_index)])

\* paragraph_hashes from a hash that is salted anew for every call
ParagraphHashesSalted(d) == [k \in 1..Len(d) |-> Sha256(<<pc>> \o d[k].text)]

\* _build_frozen_mapping: paragraph_hashes
ParagraphHashes(d) == [k \in 1..Len(d) |-> Sha256(d[k].text)]

\* _build_frozen_mapping: pre_image_hashes, for the in-range mapped indices
PreImageHashes(d, tags) ==
  LET bim == FrozenBulletIndexMap(tags)
      idxs == {bim[b] : b \in DOMAIN bim} \cap Indices(d)
  IN [i \in idxs |-> ParagraphHashes(d)[i + 1]]

\* _build_frozen_mapping: the mapping it returns
BuildFrozenMapping(d, tags) ==
  [paragraph_hashes |-> ParagraphHashes(d),
   role_spans |-> tags.role_spans,
   bullet_index_map |-> FrozenBulletIndexMap(tags),
   pre_image_hashes |-> PreImageHashes(d, tags)]

\* -------------------------------------- the mappings without structure tags
\* len() of a token in characters
TokLen(t) ==
  CASE t \in {"name", "Acme", "acme", "beta", "Tech", "tech", "lang"} -> 4
    [] t \in {"eng", "mgr", "sum"} -> 3
    [] t \in {"Skills", "skills"} -> 6
    [] t = "manager" -> 7
    [] t \in {"py", "go"} -> 2
    [] OTHER -> 1

RECURSIVE TextLen(_)
TextLen(text) ==
  IF text = <<>> THEN 0 ELSE TokLen(Head(text)) + TextLen(Tail(text))

\* set(text.lower().split()): the maximal runs of non-blank tokens
RECURSIVE SplitWords(_)
SplitWords(text) ==
  LET t == LStrip(Lower(text))
      n == IF \E k \in 1..Len(t) : IsSpace(t[k])
           THEN (CHOOSE k \in 1..Len(t) :
                   IsSpace(t[k]) /\ \A j \in 1..(k - 1) : ~IsSpace(t[j])) - 1
           ELSE Len(t)
  IN IF t = <<>> THEN {}
     ELSE {SubSeq(t, 1, n)} \cup SplitWords(SubSeq(t, n + 1, Len(t)))

\* _text_similarity(text1, text2) > 0.5
TextSimilarityAboveHalf(text1, text2) ==
  LET words1 == SplitWords(text1)
      words2 == SplitWords(text2)
  IN /\ words1 # {} /\ words2 # {}
     /\ 2 * Cardinality(words1 \cap words2) > Cardinality(words1 \cup words2)

\* dict[key] = value
MapPut(m, key, value) ==
  [x \in DOMAIN m \cup {key} |-> IF x = key THEN value ELSE m[x]]

MapValues(m) == {m[x] : x \in DOMAIN m}

\* the ids f"bullet_{n}" and f"role_{n}"
SequentialBulletIds ==
  << "bullet_1", "bullet_2", "bullet_3", "bullet_4", "bullet_5", "bullet_6",
     "bullet_7", "bullet_8", "bullet_9" >>
SequentialRoleIds ==
  << "role_1", "role_2", "role_3", "role_4", "role_5", "role_6", "role_7",
     "role_8", "role_9" >>

IsBulletAt(d, i) == IsBulletParagraph(Para(d, i), Strip(Para(d, i).text))

\* _create_bullet_mapping, first pass: a bullet paragraph goes to the first
\* outline bullet of equal normalized text; a later paragraph replaces an
\* earlier one
ExactMatches(d) ==
  LET RECURSIVE Go(_, _)
      Go(i, m) ==
        IF i >= Len(d) THEN m
        ELSE
          LET clean_text == NormalizeBulletText(Strip(Para(d, i).text))
              hits == {k \in 1..Len(Bullets) :
                         NormalizeBulletText(Bullets[k].text) = clean_text}
          IN IF IsBulletAt(d, i) /\ hits # {}
             THEN Go(i + 1, MapPut(m, Bullets[CHOOSE k \in hits :
                                        \A j \in hits : k <= j].id, i))
             ELSE Go(i + 1, m)
  IN Go(0, [x \in {} |-> 0])

\* _create_bullet_mapping, second pass: unmapped bullet paragraphs go to the
\* first similar bullet among those the first pass left unmapped
FuzzyMatches(d, m0) ==
  LET unmapped_bullets ==
        SelectSeq(Bullets, LAMBDA b : b.id \notin DOMAIN m0)
      RECURSIVE Go(_, _)
      Go(i, m) ==
        IF i >= Len(d) THEN m
        ELSE
          LET text == Strip(Para(d, i).text)
              hits == {k \in 1..Len(unmapped_bullets) :
                         TextSimilarityAboveHalf(text, unmapped_bullets[k].text)}
          IN IF IsBulletAt(d, i) /\ i \notin MapValues(m) /\ hits # {}
             THEN Go(i + 1, MapPut(m, unmapped_bullets[CHOOSE k \in hits :
                                        \A j \in hits : k <= j].id, i))
             ELSE Go(i + 1, m)
  IN Go(0, m0)

\* _create_bullet_mapping, third pass: sequential ids for the bullet
\* paragraphs still unmapped
SequentialMatches(d, m0) ==
  LET used == {n \in 1..Len(SequentialBulletIds) :
                 SequentialBulletIds[n] \in DOMAIN m0}
      first == (IF used = {} THEN 0
                ELSE CHOOSE n \in used : \A j \in used : j <= n) + 1
      RECURSIVE Go(_, _, _)
      Go(i, m, bullet_counter) ==
        IF i >= Len(d) THEN m
        ELSE IF IsBulletAt(d, i) /\ i \notin MapValues(m)
          THEN Go(i + 1, MapPut(m, SequentialBulletIds[bullet_counter], i),
                  bullet_counter + 1)
        ELSE Go(i + 1, m, bullet_counter)
  IN IF \/ DOMAIN m0 = {}
        \/ Cardinality(DOMAIN m0) <
             Cardinality({i \in Indices(d) : IsBulletAt(d, i)})
     THEN Go(0, m0, first)
     ELSE m0

\* _create_bullet_mapping
CreateBulletMapping(d) == SequentialMatches(d, FuzzyMatches(d, ExactMatches(d)))

\* the lists of _find_section_end, _find_role_section_improved and
\* _is_role_paragraph, as lower-cased tokens ('software engineer' is covered
\* by 'engineer'); no modelled text holds a date or a company suffix, which
\* are tested token by token all the same
SectionHeaders ==
  {"education", "internships", "skills", "projects", "certifications",
   "awards", "publications", "languages", "interests"}
SectionEndJobTitles ==
  {"developer", "architect", "manager", "lead", "engineer", "analyst",
   "consultant", "specialist", "intern"}
RolePatterns ==
  {"developer", "architect", "manager", "lead", "engineer", "analyst",
   "consultant", "specialist"}
RoleParagraphJobTitles ==
  {"engineer", "developer", "architect", "manager", "lead", "consultant",
   "analyst", "specialist", "coordinator", "director", "officer", "intern",
   "tutor", "associate", "senior", "principal", "staff", "chief"}
DateTokens == {"2020-2021", "jan2020"}
CompanySuffixes == {"inc", "corp", "ltd", "llc", "systems", "technologies"}

\* any(word in text.lower() for word in words)
HasAnyToken(text, words) ==
  \E k \in 1..Len(text) : LowerTok(text[k]) \in words

\* _find_section_end: the paragraph before the next section header or role
\* header, or the last paragraph
FindSectionEnd(d, start_idx) ==
  LET stops ==
        {i \in (start_idx + 1)..(Len(d) - 1) :
           LET text == Strip(Para(d, i).text)
           IN /\ text # <<>>
              /\ \/ LowerTok(Head(text)) \in SectionHeaders
                 \/ /\ TextLen(text) > 10
                    /\ \/ HasAnyToken(text, SectionEndJobTitles)
                       \/ HasAnyToken(text, DateTokens) /\ i > start_idx + 2
                       \/ /\ i + 1 < Len(d)
                          /\ HasAnyToken(Strip(Para(d, i + 1).text),
                                         CompanySuffixes)}
  IN IF stops = {} THEN Len(d) - 1
     ELSE (CHOOSE i \in stops : \A j \in stops : i <= j) - 1

\* first index of a set of paragraph indices, NoneIdx if there is none
FirstOf(idxs) ==
  IF idxs = {} THEN NoneIdx ELSE CHOOSE i \in idxs : \A j \in idxs : i <= j

\* the words of a title or company longer than three characters
LongWords(text) ==
  {LowerTok(text[k]) : k \in {j \in 1..Len(text) : TokLen(text[j]) > 3}}

\* ' '.join of the stripped texts of paragraphs i-1 .. i+1, lower-cased
NearbyText(d, i) ==
  LET lo == Max(0, i - 1)
      hi == Min(Len(d), i + 2) - 1
      RECURSIVE Join(_)
      Join(j) == IF j > hi THEN <<>>
                 ELSE Lower(Strip(Para(d, j).text))
                        \o (IF j < hi THEN <<" ">> ELSE <<>>) \o Join(j + 1)
  IN Join(lo)

\* _find_role_section_improved: the start of the role's section, NoneIdx if
\* no strategy finds it. Strategy 2 (the company line with the title at most
\* two paragraphs above) needs a paragraph that holds the title, which
\* strategy 1 has already returned.
FindRoleStart(d, role) ==
  LET title == Lower(role.title)
      company == Lower(role.company)
      txt(i) == Strip(Para(d, i).text)
      by_title == FirstOf({i \in Indices(d) : Contains(Lower(txt(i)), title)})
      by_parts == FirstOf({i \in Indices(d) :
                    /\ TextLen(txt(i)) >= 10
                    /\ HasAnyToken(txt(i), LongWords(role.title))
                    /\ HasAnyToken(txt(i), LongWords(role.company))})
      by_pattern == FirstOf({i \in Indices(d) :
                      /\ HasAnyToken(txt(i), RolePatterns)
                      /\ \/ Contains(NearbyText(d, i), title)
                         \/ Contains(NearbyText(d, i), company)})
  IN IF by_title # NoneIdx THEN by_title
     ELSE IF by_parts # NoneIdx THEN by_parts
     ELSE by_pattern

\* _is_role_paragraph
IsRoleParagraph(text) == HasAnyToken(text, RoleParagraphJobTitles)

\* _create_role_mapping: the roles of the outline that are found, or, if none
\* is found, one sequential role per paragraph that names a job title
CreateRoleMapping(d) ==
  LET found == {k \in 1..Len(Roles) : FindRoleStart(d, Roles[k]) # NoneIdx}
      headers == {i \in Indices(d) : IsRoleParagraph(Strip(Para(d, i).text))}
      nth(i) == Cardinality({j \in headers : j <= i})
  IN IF found # {}
     THEN [r \in {Roles[k].id : k \in found} |->
             LET role == Roles[CHOOSE k \in found : Roles[k].id = r]
                 start_idx == FindRoleStart(d, role)
             IN <<start_idx, FindSectionEnd(d, start_idx)>>]
     ELSE [r \in {SequentialRoleIds[nth(i)] : i \in headers} |->
             LET i == CHOOSE i \in headers : SequentialRoleIds[nth(i)] = r
             IN <<i, FindSectionEnd(d, i)>>]

\* apply_plan: the mappings come from the tags when role spans are given and
\* from the heuristics otherwise
BulletMappingFor(d, tags) ==
  IF tags.role_spans # <<>> THEN BulletMappingFromTags(d, tags)
  ELSE CreateBulletMapping(d)

RoleMappingFor(d, tags) ==
  IF tags.role_spans # <<>> THEN RoleMappingFromTags(d, tags)
  ELSE CreateRoleMapping(d)

\* ------------------------------------------------------------- the edits
EditRecord(type, pos) ==
  [type |-> type, pos |-> pos,
   bullet_id |-> None, new_text |-> <<>>,
   role_id |-> None, after_bullet_id |-> None, text |-> <<>>,
   bucket |-> None, value |-> None,
   resolved_paragraph_index |-> NoneIdx, pre_image_hash |-> NoHash,
   resolved_after_paragraph_index |-> NoneIdx]

ModifyBullet(bullet_id, new_text) ==
  [EditRecord("modify_bullet", 0) EXCEPT !.bullet_id = bullet_id,
                                          !.new_text = new_text]

InsertBullet(role_id, after_bullet_id, text) ==
  [EditRecord("insert_bullet", 0) EXCEPT !.role_id = role_id,
                                          !.after_bullet_id = after_bullet_id,
                                          !.text = text]

UpsertSkill(bucket, value) ==
  [EditRecord("upsert_skill", 0) EXCEPT !.bucket = bucket, !.value = value]

\* a dict edit whose type the applier does not know
UnknownEdit == EditRecord("delete_bullet", 0)

GetOr(f, k, default) == IF k \in DOMAIN f THEN f[k] ELSE default

\* ResumeEnhancementOrchestrator._enrich_plan_with_mapping, one edit
EnrichEdit(e, bullet_map, pre_hashes) ==
  IF e.type = "modify_bullet" THEN
    LET idx == GetOr(bullet_map, e.bullet_id, NoneIdx)
    IN [e EXCEPT !.resolved_paragraph_index = idx,
                 !.pre_image_hash = GetOr(pre_hashes, idx, NoHash)]
  ELSE IF e.type = "insert_bullet" THEN
    [e EXCEPT !.resolved_after_paragraph_index =
                 IF e.after_bullet_id # None
                 THEN GetOr(bullet_map, e.after_bullet_id, NoneIdx)
                 ELSE NoneIdx]
  ELSE e

\* _enrich_plan_with_mapping: edits of other types are not carried over
EnrichPlanWithMapping(edits, bullet_map, pre_hashes) ==
  LET known == SelectSeq(edits, LAMBDA e :
                 e.type \in {"modify_bullet", "insert_bullet", "upsert_skill"})
  IN [k \in 1..Len(known) |-> EnrichEdit(known[k], bullet_map, pre_hashes)]

\* the key with insert_bullet ranked before modify_bullet
EditKeyInsertFirst(e) ==
  CASE e.type = "insert_bullet" -> 0
    [] e.type = "modify_bullet" -> 1
    [] e.type = "upsert_skill" -> 2
    [] OTHER -> 99

\* apply_plan: _edit_key
EditKey(e) ==
  CASE e.type = "modify_bullet" -> 0
    [] e.type = "insert_bullet" -> 1
    [] e.type = "upsert_skill" -> 2
    [] OTHER -> 99

\* the edits taken in the order the plan lists them
OrderedEditsAsListed(edits) == edits

\* apply_plan: ordered_edits = sorted(edits, key=_edit_key)
OrderedEdits(edits) ==
  SortedByKey(edits, [k \in 1..Len(edits) |-> EditKey(edits[k])])

\* ------------------------------------------------- applying a single edit
\* outcome of an edit handler: the document, and whether it raised
Outcome(d, raised) == [doc |-> d, raised |-> raised]

\* the guard left out: a recorded hash is never compared
PreImageNeverCompared(pre_image_hash, text) == FALSE

\* _apply_modify_bullet: the pre-image guard
PreImageMismatch(pre_image_hash, text) ==
  pre_image_hash # NoHash /\ Sha256(text) # pre_image_hash

\* new_text assigned as it is, also to automatically numbered paragraphs
ModifiedTextVerbatim(p, new_text) == new_text

\* _apply_modify_bullet: the text assigned to the paragraph
ModifiedText(p, new_text) ==
  IF HasAutoBullets(p) THEN StripLeadingBullet(new_text) ELSE new_text

\* _apply_modify_bullet: index of the target paragraph, NoneIdx when the
\* bullet id is not in the mapping
ModifyTarget(e, bullet_mapping) ==
  IF e.resolved_paragraph_index # NoneIdx THEN e.resolved_paragraph_index
  ELSE GetOr(bullet_mapping, e.bullet_id, NoneIdx)

\* _apply_modify_bullet
ApplyModifyBullet(d, e, bullet_mapping) ==
  LET paragraph_idx == ModifyTarget(e, bullet_mapping)
  IN IF paragraph_idx = NoneIdx THEN Outcome(d, FALSE)
     ELSE IF paragraph_idx >= Len(d) THEN Outcome(d, TRUE)   \* IndexError
     ELSE IF PreImageMismatch(e.pre_image_hash, Para(d, paragraph_idx).text)
          THEN Outcome(d, FALSE)
     ELSE Outcome(SetText(d, paragraph_idx,
                          ModifiedText(Para(d, paragraph_idx), e.new_text)),
                  FALSE)

\* _apply_insert_bullet: the insertion index
InsertIndex(d, e, bullet_mapping, role_start, role_end) ==
  IF e.resolved_after_paragraph_index # NoneIdx
    THEN e.resolved_after_paragraph_index + 1
  ELSE IF e.after_bullet_id # None /\ e.after_bullet_id \in DOMAIN bullet_mapping
    THEN bullet_mapping[e.after_bullet_id] + 1
  ELSE
    LET bullets == {i \in SpanRange(d, role_start, role_end) :
                      IsBulletParagraph(Para(d, i), Strip(Para(d, i).text))}
    IN IF bullets # {}
       THEN (CHOOSE i \in bullets : \A j \in bullets : j <= i) + 1
       ELSE Min(role_start + 2, Min(role_end + 1, Len(d)))

\* _apply_insert_bullet: text of the new paragraph
InsertedText(d, role_start, role_end, text) ==
  IF RoleUsesAutoBullets(d, role_start, role_end)
  THEN StripLeadingBullet(text)
  ELSE EnsureSingleBulletPrefix(text)

\* _apply_bullet_formatting / _ensure_bullet_formatting read
\* doc.paragraphs[i] for i in range(role_start, role_end + 1) until a donor is
\* found: IndexError when the range leaves the document first
\* (donors: the indices of the paragraphs the loop stops at)
FormattingRaises(d, role_start, role_end, donors) ==
  /\ role_end >= Len(d)
  /\ \A i \in role_start..(Len(d) - 1) : i \notin donors

\* _ensure_bullet_numbering: a paragraph of the span carries numPr to clone
\* (its own IndexError is caught)
NumberingDonor(d, role_start, role_end) ==
  \E i \in role_start..Min(role_end, Len(d) - 1) : Para(d, i).numPr

\* _apply_insert_bullet
ApplyInsertBullet(d, e, bullet_mapping, role_mapping, new_id) ==
  IF e.role_id \notin DOMAIN role_mapping THEN Outcome(d, FALSE)
  ELSE
    LET role_start == role_mapping[e.role_id][1]
        role_end == role_mapping[e.role_id][2]
        insert_idx == InsertIndex(d, e, bullet_mapping, role_start, role_end)
        new_paragraph ==
          NewPara(InsertedText(d, role_start, role_end, e.text), FALSE,
                  new_id, e.role_id)
        d1 == InsertParagraph(d, insert_idx, new_paragraph)
        pos == Min(insert_idx, Len(d))
        d2 == [d1 EXCEPT ![pos + 1].numPr =
                 NumberingDonor(d1, role_start, role_end)]
    IN IF IsDuplicateBulletInSpan(d, role_start, role_end, e.text)
         THEN Outcome(d, FALSE)
       ELSE IF \/ FormattingRaises(d1, role_start, role_end,
                     {j \in Indices(d1) :
                        StartsWithAny(Strip(Para(d1, j).text), {"BULLET"})})
               \/ FormattingRaises(d1, role_start, role_end,
                     {j \in Indices(d1) :
                        IsBulletParagraph(Para(d1, j),
                                          Strip(Para(d1, j).text))})
         THEN Outcome(d1, TRUE)
       ELSE Outcome(DedupeBulletsInSpan(d2, role_start, role_end), FALSE)

\* _find_skills_section: keywords 'skills', 'technical skills',
\* 'competencies', 'expertise' as tokens of the lower-cased text
SkillsKeywords == {"skills", "competencies", "expertise"}

FindSkillsSection(d) ==
  LET hits == {i \in Indices(d) :
                 \E k \in 1..Len(Para(d, i).text) :
                    LowerTok(Para(d, i).text[k]) \in SkillsKeywords}
  IN IF hits = {} THEN NoneIdx
     ELSE CHOOSE i \in hits : \A j \in hits : i <= j

\* _add_skill_to_section
AddSkillToSection(d, section_idx, skill, category) ==
  LET hits == {i \in section_idx..(Len(d) - 1) :
                 Contains(Lower(Para(d, i).text), <<LowerTok(category)>>)}
  IN IF hits = {} THEN d
     ELSE LET i == CHOOSE i \in hits : \A j \in hits : i <= j
          IN IF Contains(Para(d, i).text, <<skill>>) THEN d
             ELSE SetText(d, i, Para(d, i).text \o <<",", " ", skill>>)

\* _create_skills_section
CreateSkillsSection(d, category, skill, new_id) ==
  d \o << NewPara(<<category, ":">>, FALSE, new_id, None),
          NewPara(<<skill>>, FALSE, new_id + 1, None) >>

\* _apply_upsert_skill: "if skills_section:" is false for None and for 0
ApplyUpsertSkill(d, e, new_id) ==
  LET skills_section == FindSkillsSection(d)
  IN IF skills_section # NoneIdx /\ skills_section # 0
     THEN Outcome(AddSkillToSection(d, skills_section, e.value, e.bucket), FALSE)
     ELSE Outcome(CreateSkillsSection(d, e.bucket, e.value, new_id), FALSE)

\* _apply_single_edit
ApplySingleEdit(d, e, bullet_mapping, role_mapping, new_id) ==
  CASE e.type = "modify_bullet" -> ApplyModifyBullet(d, e, bullet_mapping)
    [] e.type = "insert_bullet" ->
         ApplyInsertBullet(d, e, bullet_mapping, role_mapping, new_id)
    [] e.type = "upsert_skill" -> ApplyUpsertSkill(d, e, new_id)
    [] OTHER -> Outcome(d, FALSE)

\* ------------------------------------------------ company-line restoration
\* _ensure_company_lines_preserved: the role_mapping update after an insert
ShiftRoleMapping(role_mapping, insert_idx) ==
  [r \in DOMAIN role_mapping |->
     IF role_mapping[r][1] >= insert_idx
       THEN <<role_mapping[r][1] + 1, role_mapping[r][2] + 1>>
     ELSE IF role_mapping[r][2] >= insert_idx
       THEN <<role_mapping[r][1], role_mapping[r][2] + 1>>
     ELSE role_mapping[r]]

\* _ensure_company_lines_preserved: doc_texts_lower is computed once, before
\* the loop over the roles
EnsureCompanyLinesPreserved(d0, role_mapping0, original_company_lines) ==
  LET doc_texts_lower == [k \in 1..Len(d0) |-> Lower(Strip(d0[k].text))]
      present(line) == \E k \in 1..Len(d0) :
                          Contains(doc_texts_lower[k], Lower(line))
      RECURSIVE Go(_, _, _)
      Go(idx, d, role_mapping) ==
        IF idx > Len(Roles) THEN [doc |-> d, role_mapping |-> role_mapping]
        ELSE IF idx > Len(original_company_lines)
          THEN Go(idx + 1, d, role_mapping)
        ELSE
          LET company_line == Strip(original_company_lines[idx])
              role == Roles[idx]
          IN IF company_line = <<>> \/ present(company_line)
               \/ role.id \notin DOMAIN role_mapping
             THEN Go(idx + 1, d, role_mapping)
             ELSE
               LET start_idx == role_mapping[role.id][1]
                   insert_idx == Min(start_idx + 1, Len(d))
                   new_para == NewPara(company_line, FALSE, 200 + idx, role.id)
               IN Go(idx + 1, InsertParagraph(d, insert_idx, new_para),
                     ShiftRoleMapping(role_mapping, insert_idx))
  IN Go(1, d0, role_mapping0)

\* ----------------------------------------------------- modelled requests
B == "BULLET"

Tag(i, label, span) ==
  [paragraph_index |-> i, label |-> label, role_span_id |-> span]

Span(id, s, e) == [span_id |-> id, start_index |-> s, end_index |-> e]

\* a resume with manually typed bullet glyphs and a skills section
DocManual ==
  << NewPara(<<"name">>, FALSE, 0, None),
     NewPara(<<"eng", " ", "Acme">>, FALSE, 1, "r1"),
     NewPara(<<B, " ", "a">>, FALSE, 2, "r1"),
     NewPara(<<B, " ", "b">>, FALSE, 3, "r1"),
     NewPara(<<"mgr">>, FALSE, 4, "r2"),
     NewPara(<<B, " ", "a">>, FALSE, 5, "r2"),
     NewPara(<<"Skills">>, FALSE, 6, None),
     NewPara(<<"Tech", ":", " ", "py">>, FALSE, 7, None) >>

TagsManual ==
  [paragraph_tags |->
     << Tag(0, "header_profile", None), Tag(1, "role_header", "r1"),
        Tag(2, "bullet", "r1"), Tag(3, "bullet", "r1"),
        Tag(4, "role_header", "r2"), Tag(5, "bullet", "r2"),
        Tag(6, "skills_header", None), Tag(7, "other", None) >>,
   role_spans |-> << Span("r1", 1, 3), Span("r2", 4, 5) >>]

\* the same tags from an oracle that also reports a bullet beyond the end of
\* the document (tag_paragraphs keeps every tag with an int index)
TagsBeyondEnd ==
  [paragraph_tags |-> TagsManual.paragraph_tags \o <<Tag(9, "bullet", "r2")>>,
   role_spans |-> << Span("r1", 1, 3), Span("r2", 4, 9) >>]

\* a resume with automatically numbered bullets whose profile summary
\* mentions "tech skills"
DocAuto ==
  << NewPara(<<"name">>, FALSE, 0, None),
     NewPara(<<"sum", " ", "tech", " ", "skills">>, FALSE, 1, None),
     NewPara(<<"eng", " ", "Acme">>, FALSE, 2, "r1"),
     NewPara(<<"a">>, TRUE, 3, "r1"),
     NewPara(<<"b">>, TRUE, 4, "r1"),
     NewPara(<<"mgr">>, FALSE, 5, "r2"),
     NewPara(<<"a">>, TRUE, 6, "r2"),
     NewPara(<<"Skills">>, FALSE, 7, None),
     NewPara(<<"Tech", ":", " ", "py">>, FALSE, 8, None) >>

TagsAuto ==
  [paragraph_tags |->
     << Tag(0, "header_profile", None), Tag(1, "header_profile", None),
        Tag(2, "role_header", "r1"),
        Tag(3, "bullet", "r1"), Tag(4, "bullet", "r1"),
        Tag(5, "role_header", "r2"), Tag(6, "bullet", "r2"),
        Tag(7, "skills_header", None), Tag(8, "other", None) >>,
   role_spans |-> << Span("r1", 2, 4), Span("r2", 5, 6) >>]

\* the tags of an oracle that reports the span of the first role only
TagsOneSpan ==
  [paragraph_tags |-> TagsManual.paragraph_tags,
   role_spans |-> << Span("r1", 1, 3) >>]

\* a resume whose second role header is long and names a job title
DocTitled ==
  << NewPara(<<"name">>, FALSE, 0, None),
     NewPara(<<"eng", " ", "Acme">>, FALSE, 1, "r1"),
     NewPara(<<B, " ", "a">>, FALSE, 2, "r1"),
     NewPara(<<B, " ", "b">>, FALSE, 3, "r1"),
     NewPara(<<"mgr", " ", "manager", " ", "beta">>, FALSE, 4, "r2"),
     NewPara(<<B, " ", "a">>, FALSE, 5, "r2"),
     NewPara(<<"Skills">>, FALSE, 6, None),
     NewPara(<<"Tech", ":", " ", "py">>, FALSE, 7, None) >>

\* what tag_paragraphs returns when the oracle call fails
TagsNone == [paragraph_tags |-> <<>>, role_spans |-> <<>>]

Scenarios ==
  << [doc |-> DocManual, tags |-> TagsManual],
     [doc |-> DocAuto, tags |-> TagsAuto],
     [doc |-> DocManual, tags |-> TagsBeyondEnd],
     [doc |-> DocTitled, tags |-> TagsNone],
     [doc |-> DocManual, tags |-> TagsOneSpan] >>

\* the edits a plan is drawn from
ModifyEdits ==
  { ModifyBullet("b1", <<"c">>),
    ModifyBullet("b1", <<B, " ", "c", " ">>),
    ModifyBullet("b1", <<B, B, "c">>),
    ModifyBullet("b2", <<B, " ", "a">>),
    ModifyBullet("b3", <<"c">>),
    ModifyBullet("b4", <<"c">>) }

InsertEdits ==
  { InsertBullet("r1", None, <<"c">>),
    InsertBullet("r1", None, <<B, " ", "C", " ">>),
    InsertBullet("r1", None, <<"a">>),
    InsertBullet("r1", "b1", <<"c">>),
    InsertBullet("r1", None, <<B, B, "c">>),
    InsertBullet("r2", None, <<"c">>),
    InsertBullet("rX", None, <<"c">>) }

UpsertEdits ==
  { UpsertSkill("Tech", "go"), UpsertSkill("Tech", "py"),
    UpsertSkill("lang", "go") }

EditUniverse == ModifyEdits \cup InsertEdits \cup UpsertEdits \cup {UnknownEdit}

\* the plans: sequences of edits, each edit knowing its place in the plan
Plans ==
  {<<>>} \cup UNION { { [k \in 1..n |-> [es[k] EXCEPT !.pos = k]] :
                  es \in [1..n -> EditUniverse] } : n \in 1..MaxPlanLen }

\* Orchestrator.enhance_resume: original_company_lines, one per role
OriginalCompanyLines == [k \in 1..Len(Roles) |-> Roles[k].company]

\* ------------------------------------------------- StructureTaggerAgent
\* the nine labels of ParagraphTag
Labels ==
  {"header_profile", "section_header", "role_header", "company_line",
   "date_line", "bullet", "skills_header", "education_header", "other"}

\* values of the parsed JSON, with their Python type
PyInt(n) == [t |-> "int", n |-> n, s |-> ""]
PyStr(str) == [t |-> "str", n |-> 0, s |-> str]
PyNone == [t |-> "NoneType", n |-> 0, s |-> ""]

\* an entry of paragraph_tags / role_spans in the response: a dict with the
\* values of its keys (PyNone for .get of a missing key), or not a dict
TagEntry(index, label) ==
  [is_dict |-> TRUE, paragraph_index |-> index, label |-> label]
SpanEntry(id, s, e) ==
  [is_dict |-> TRUE, span_id |-> id, start_index |-> s, end_index |-> e]
NotADict == [is_dict |-> FALSE]

\* the value of a key of the response object: absent, null, a number, a
\* string, or a list of entries
Field(kind, items) == [kind |-> kind, items |-> items]

\* what the oracle call gives: an exception (failure, timeout), text without
\* a JSON object, text json.loads rejects, or a parsed object
Raises == [kind |-> "raises"]
NoJsonObject == [kind |-> "no_json_object"]
Unparsable == [kind |-> "unparsable"]
JsonObject(paragraph_tags, role_spans) ==
  [kind |-> "object", paragraph_tags |-> paragraph_tags,
   role_spans |-> role_spans]

EmptySentinel == [paragraph_tags |-> <<>>, role_spans |-> <<>>]

\* iterating a field: TypeError for null and numbers, the characters of a
\* string (none of them a dict), the items of a list, [] for an absent key
\* (setdefault)
Iterable(field) == field.kind \in {"missing", "string", "list"}
ItemsOf(field) == IF field.kind = "list" THEN field.items ELSE <<>>

\* tag_paragraphs: the filter on paragraph_tags
TagKept(t) ==
  t.is_dict /\ t.paragraph_index.t = "int" /\ t.label.t = "str"

\* tag_paragraphs: the filter on role_spans
SpanKept(sp) ==
  /\ sp.is_dict
  /\ sp.start_index.t = "int"
  /\ sp.end_index.t = "int"
  /\ sp.span_id.t = "str"

FilterTags(items) ==
  LET kept == SelectSeq(items, TagKept)
  IN [k \in 1..Len(kept) |->
        Tag(kept[k].paragraph_index.n, kept[k].label.s, None)]

FilterSpans(items) ==
  LET kept == SelectSeq(items, SpanKept)
  IN [k \in 1..Len(kept) |->
        Span(kept[k].span_id.s, kept[k].start_index.n, kept[k].end_index.n)]

\* a non-iterable field handed on instead of being caught
TagParagraphsUncaught(paragraphs, resp) ==
  IF resp.kind = "object"
  THEN [raised |-> ~(Iterable(resp.paragraph_tags) /\ Iterable(resp.role_spans)),
        tags |-> [paragraph_tags |-> FilterTags(ItemsOf(resp.paragraph_tags)),
                  role_spans |-> FilterSpans(ItemsOf(resp.role_spans))]]
  ELSE [raised |-> resp.kind = "raises", tags |-> EmptySentinel]

\* tag_paragraphs: every exception of the call, of the parse and of the
\* filters ends in the empty sentinel
TagParagraphs(paragraphs, resp) ==
  IF /\ resp.kind = "object"
     /\ Iterable(resp.paragraph_tags)
     /\ Iterable(resp.role_spans)
  THEN [raised |-> FALSE,
        tags |-> [paragraph_tags |-> FilterTags(ItemsOf(resp.paragraph_tags)),
                  role_spans |-> FilterSpans(ItemsOf(resp.role_spans))]]
  ELSE [raised |-> FALSE, tags |-> EmptySentinel]

\* _collect_paragraph_metadata: the stripped text and numPr of each paragraph
CollectParagraphMetadata(d) ==
  [k \in 1..Len(d) |->
     [paragraph_index |-> k - 1, text |-> Strip(d[k].text),
      has_numpr |-> d[k].numPr]]

\* the responses the oracle is taken to give
TagEntries ==
  { TagEntry(PyInt(2), PyStr("bullet")), TagEntry(PyInt(-1), PyStr("bullet")),
    TagEntry(PyInt(9), PyStr("other")), TagEntry(PyInt(1), PyStr("title")),
    TagEntry(PyStr("2"), PyStr("bullet")), TagEntry(PyInt(3), PyNone),
    NotADict }

SpanEntries ==
  { SpanEntry(PyStr("r1"), PyInt(1), PyInt(3)),
    SpanEntry(PyStr("r2"), PyInt(3), PyInt(5)),
    SpanEntry(PyStr("r2"), PyInt(5), PyInt(4)),
    SpanEntry(PyStr("r2"), PyInt(4), PyInt(9)),
    SpanEntry(PyNone, PyInt(4), PyInt(5)),
    SpanEntry(PyStr("r2"), PyStr("4"), PyInt(5)),
    NotADict }

FieldsOf(entries) ==
  { Field("missing", <<>>), Field("null", <<>>), Field("number", <<>>),
    Field("string", <<>>), Field("list", <<>>) }
  \cup { Field("list", <<x>>) : x \in entries }
  \cup { Field("list", <<x, y>>) : x \in entries, y \in entries }

OracleResponses ==
  { Raises, NoJsonObject, Unparsable }
  \cup { JsonObject(pt, rs) : pt \in FieldsOf(TagEntries),
                              rs \in FieldsOf(SpanEntries) }

\* ---------------------------------------------------------- EvaluatorAgent
\* the three characters the evaluator tests with startswith and in its
\* regexes
EvalGlyphs == {"BULLET", "-", "*"}

\* t.get(key) on a tag dict
TagRoleId(t) == IF "role_id" \in DOMAIN t THEN t.role_id ELSE None

\* a role_header tag on which the oracle also gives a role_id key
RoleTag(idx, role_id) ==
  [paragraph_index |-> idx, label |-> "role_header",
   role_span_id |-> role_id, role_id |-> role_id]

\* EvaluatorAgent._is_bullet_paragraph: a glyph at the start and no numPr
EvalIsBulletParagraph(p, text) == StartsWithAny(text, EvalGlyphs) /\ ~p.numPr

\* EvaluatorAgent._looks_like_bullet
LooksLikeBullet(p, text) == p.numPr \/ StartsWithAny(text, EvalGlyphs)

\* EvaluatorAgent._normalize_bullet_text
EvalNormalizeBulletText(text) ==
  LET low == Lower(text)
      base == IF StartsWithAny(low, EvalGlyphs) THEN LStrip(Tail(low)) ELSE low
  IN CollapseSpaces(Strip(base))

\* evaluate: the spans of its duplicate check, one per role_id of a
\* role_header tag, from the header to the first paragraph after it that
\* starts with a glyph (a later tag of the same role_id replaces an earlier)
EvalRoleMapping(enh_doc, enhanced_tags) ==
  LET tags == enhanced_tags.paragraph_tags
      heads == {k \in 1..Len(tags) :
                  tags[k].label = "role_header" /\ TagRoleId(tags[k]) # None}
      last(r) == CHOOSE k \in heads :
                   /\ TagRoleId(tags[k]) = r
                   /\ \A j \in heads : TagRoleId(tags[j]) = r => j <= k
      endOf(start_idx) ==
        LET glyphs == {j \in (start_idx + 1)..(Len(enh_doc) - 1) :
                         StartsWithAny(Strip(Para(enh_doc, j).text), EvalGlyphs)}
        IN IF glyphs = {} THEN start_idx
           ELSE CHOOSE j \in glyphs : \A m \in glyphs : j <= m
  IN [r \in {TagRoleId(tags[k]) : k \in heads} |->
        <<tags[last(r)].paragraph_index,
          endOf(tags[last(r)].paragraph_index)>>]

\* evaluate: the duplicate findings
DuplicateFindings(enh_doc, enhanced_tags) ==
  LET rm == EvalRoleMapping(enh_doc, enhanced_tags)
      isB(i) == /\ i < Len(enh_doc)
                /\ Strip(Para(enh_doc, i).text) # <<>>
                /\ EvalIsBulletParagraph(Para(enh_doc, i),
                                         Strip(Para(enh_doc, i).text))
      norm(i) == EvalNormalizeBulletText(Strip(Para(enh_doc, i).text))
  IN UNION { { [role_id |-> r, paragraph_index |-> i] :
                 i \in {i \in rm[r][1]..rm[r][2] :
                          /\ isB(i)
                          /\ \E j \in rm[r][1]..(i - 1) :
                                isB(j) /\ norm(j) = norm(i)} } :
             r \in DOMAIN rm }

\* evaluate: dbl_pat, ^\s*[glyph]\s*[glyph]\s+
DoubleBullets(enh_doc) ==
  {i \in Indices(enh_doc) :
     LET t == LStrip(Para(enh_doc, i).text)
         u == IF t = <<>> THEN <<>> ELSE LStrip(Tail(t))
     IN /\ StartsWithAny(t, EvalGlyphs)
        /\ StartsWithAny(u, EvalGlyphs)
        /\ Len(u) >= 2 /\ IsSpace(u[2])}

\* evaluate: enh_tag_map, the label of the last tag of each index
EnhTagMap(enhanced_tags, idx) ==
  LET tags == enhanced_tags.paragraph_tags
      hits == {k \in 1..Len(tags) : tags[k].paragraph_index = idx}
  IN IF hits = {} THEN None
     ELSE tags[CHOOSE k \in hits : \A j \in hits : j <= k].label

\* evaluate: paragraphs tagged bullet without numbering and without glyph
LostBullets(enh_doc, enhanced_tags) ==
  {i \in Indices(enh_doc) :
     /\ EnhTagMap(enhanced_tags, i) = "bullet"
     /\ ~Para(enh_doc, i).numPr
     /\ ~StartsWithAny(LStrip(Para(enh_doc, i).text), EvalGlyphs)}

\* EvaluatorAgent._collect_label_texts
CollectLabelTexts(tags, d, label) ==
  LET sel == SelectSeq(tags.paragraph_tags,
                       LAMBDA t : t.label = label
                                    /\ t.paragraph_index \in Indices(d))
  IN [k \in 1..Len(sel) |-> Strip(Para(d, sel[k].paragraph_index).text)]

\* evaluate: the original company lines found neither among the tagged
\* company lines nor in the text of some paragraph
MissingCompanies(orig_doc, enh_doc, original_tags, enhanced_tags) ==
  LET orig_companies == CollectLabelTexts(original_tags, orig_doc, "company_line")
      enh_companies == CollectLabelTexts(enhanced_tags, enh_doc, "company_line")
      norm(c) == Lower(Strip(c))
      in_tags(c) == \E k \in 1..Len(enh_companies) :
                       norm(enh_companies[k]) = norm(c)
      in_text(c) == \E x \in 1..Len(enh_doc) :
                       Contains(Lower(Strip(enh_doc[x].text)), norm(c))
  IN SelectSeq(orig_companies,
               LAMBDA c : norm(c) # <<>> /\ ~(in_tags(c) \/ in_text(c)))

\* original_tags carrying the paragraph hashes of the frozen mapping
WithHashes(tags, hashes) ==
  [paragraph_tags |-> tags.paragraph_tags, role_spans |-> tags.role_spans,
   paragraph_hashes |-> hashes]

\* evaluate, drift check: the label of the first tag of an index
FirstLabel(enhanced_tags, idx) ==
  LET tags == enhanced_tags.paragraph_tags
      hits == {k \in 1..Len(tags) : tags[k].paragraph_index = idx}
  IN IF hits = {} THEN None
     ELSE tags[CHOOSE k \in hits : \A j \in hits : k <= j].label

DriftAllowed == {"bullet", "skills_line"}

\* evaluate, drift check: paragraph i of the enhanced document is compared
\* with orig_hashes[i]; the IndexError of an index beyond the original
\* document ends the loop and is swallowed
DriftFindings(orig_doc, enh_doc, original_tags, enhanced_tags) ==
  IF "paragraph_hashes" \notin DOMAIN original_tags THEN {}
  ELSE
    LET orig_hashes == original_tags.paragraph_hashes
        checked(i) == FirstLabel(enhanced_tags, i) \notin DriftAllowed
        errs == {i \in Indices(enh_doc) : checked(i) /\ i >= Len(orig_hashes)}
        stop == IF errs = {} THEN Len(enh_doc)
                ELSE CHOOSE i \in errs : \A j \in errs : i <= j
    IN IF Len(orig_hashes) # Len(orig_doc) THEN {}
       ELSE {i \in 0..(stop - 1) :
               /\ checked(i)
               /\ Sha256(Para(enh_doc, i).text) # orig_hashes[i + 1]}

\* evaluate: the job_title_keywords of the orphan check
OrphanJobTitles ==
  {"engineer", "developer", "architect", "manager", "lead", "consultant",
   "analyst", "specialist", "coordinator", "director", "officer", "intern",
   "tutor", "associate", "senior", "principal", "staff", "chief"}

\* words of the modelled texts that match [A-Z][a-zA-Z]+
CapitalizedWords == {"Acme", "Tech", "Skills"}

\* re.search(r",\s*[A-Z][a-zA-Z]+(,\s*[A-Z]{2})?$", text): no modelled text
\* ends with a two-letter state code
EndsWithLocation(text) ==
  \E k \in 1..Len(text) :
     /\ text[k] = ","
     /\ LET rest == LStrip(SubSeq(text, k + 1, Len(text)))
        IN Len(rest) = 1 /\ rest[1] \in CapitalizedWords

\* evaluate: bullets with no role header or company line among the 20
\* paragraphs before them
OrphanedBullets(enh_doc, enhanced_tags) ==
  {i \in Indices(enh_doc) :
     /\ \/ EnhTagMap(enhanced_tags, i) = "bullet"
        \/ LooksLikeBullet(Para(enh_doc, i), Strip(Para(enh_doc, i).text))
     /\ ~\E j \in Max(0, i - 20)..(i - 1) :
            LET prev_text == Strip(Para(enh_doc, j).text)
            IN \/ EnhTagMap(enhanced_tags, j) \in {"role_header", "company_line"}
               \/ HasAnyToken(prev_text, OrphanJobTitles)
               \/ EndsWithLocation(prev_text)}

\* evaluate: a major section header right after a bullet
StructuralIssues(enh_doc) ==
  {i \in Indices(enh_doc) :
     /\ Strip(Para(enh_doc, i).text) \in
          {<<"INTERNSHIPS">>, <<"WORK", " ", "EXPERIENCE">>, <<"EDUCATION">>}
     /\ i > 0
     /\ StartsWithAny(Strip(Para(enh_doc, i - 1).text), {"BULLET"})}

\* the names evaluate appends to report["issues"], in its order
IssueNames(rep) ==
  (IF rep.duplicates # {} THEN <<"duplicate_bullets">> ELSE <<>>)
  \o (IF rep.double_bullets # {} THEN <<"double_bullet_chars">> ELSE <<>>)
  \o (IF rep.lost_bullets # {} THEN <<"lost_bullet_formatting">> ELSE <<>>)
  \o (IF rep.company_changes # <<>> THEN <<"company_lines_changed">> ELSE <<>>)
  \o (IF rep.orphaned_bullets # {} THEN <<"orphaned_bullets">> ELSE <<>>)
  \o (IF rep.structural_issues # {} THEN <<"structural_issues">> ELSE <<>>)
  \o (IF rep.drift # {} THEN <<"non_allowlisted_drift">> ELSE <<>>)

\* evaluate: "Overall pass" reads report["duplicates"], which stays empty;
\* the duplicate findings are stored under "duplicate_bullets"
Passed(rep) ==
  /\ rep.duplicates = {}
  /\ rep.double_bullets = {} /\ rep.lost_bullets = {}
  /\ rep.company_changes = <<>> /\ rep.orphaned_bullets = {}
  /\ rep.structural_issues = {} /\ rep.drift = {}

\* EvaluatorAgent.evaluate
Evaluate(orig_doc, enh_doc, original_tags, enhanced_tags) ==
  LET missing == MissingCompanies(orig_doc, enh_doc, original_tags,
                                  enhanced_tags)
      findings ==
        [duplicates |-> {},
         duplicate_bullets |-> DuplicateFindings(enh_doc, enhanced_tags),
         double_bullets |-> DoubleBullets(enh_doc),
         lost_bullets |-> LostBullets(enh_doc, enhanced_tags),
         company_changes |-> IF missing = <<>> THEN <<>>
                             ELSE <<[missing |-> missing]>>,
         orphaned_bullets |-> OrphanedBullets(enh_doc, enhanced_tags),
         structural_issues |-> StructuralIssues(enh_doc),
         drift |-> DriftFindings(orig_doc, enh_doc, original_tags,
                                 enhanced_tags)]
  IN [passed |-> Passed(findings), issues |-> IssueNames(findings),
      findings |-> findings]

\* ---- the tags the classification oracle may give for the post-edit document
\* the label of a paragraph of the post-edit document: inserted company lines
\* and bullets by what inserted them, the others by what they were in the
\* original document
TrueLabel(orig_doc, p) ==
  IF p.id >= 200 THEN "company_line"
  ELSE IF p.id >= 100 THEN (IF p.owner = None THEN "other" ELSE "bullet")
  ELSE LET o == Para(orig_doc, p.id)
       IN IF IsBulletParagraph(o, Strip(o.text)) THEN "bullet"
          ELSE IF o.owner # None THEN "role_header"
          ELSE "other"

\* the role spans of a document, from the role each paragraph belongs to
RoleSpansOf(d) ==
  LET owned(r) == {x \in Indices(d) : Para(d, x).owner = r}
      present == SelectSeq(Roles, LAMBDA r : owned(r.id) # {})
  IN [k \in 1..Len(present) |->
        LET xs == owned(present[k].id)
        IN Span(present[k].id,
                CHOOSE x \in xs : \A y \in xs : x <= y,
                CHOOSE x \in xs : \A y \in xs : x >= y)]

\* tags in the shape of ParagraphTag (role_span_id) that label every
\* paragraph of d correctly
FaithfulTags(orig_doc, d) ==
  [paragraph_tags |->
     [k \in 1..Len(d) |-> Tag(k - 1, TrueLabel(orig_doc, d[k]), d[k].owner)],
   role_spans |-> RoleSpansOf(d)]

\* the same tags from an oracle that adds a role_id to its role headers
RoleIdTags(orig_doc, d) ==
  [paragraph_tags |->
     [k \in 1..Len(d) |->
        IF TrueLabel(orig_doc, d[k]) = "role_header"
        THEN RoleTag(k - 1, d[k].owner)
        ELSE Tag(k - 1, TrueLabel(orig_doc, d[k]), d[k].owner)],
   role_spans |-> RoleSpansOf(d)]

\* the tags of an oracle that also takes the first bullet of every role for
\* a role header
FirstBulletAsHeaderTags(orig_doc, d) ==
  LET base == RoleIdTags(orig_doc, d)
      spans == RoleSpansOf(d)
      firsts == {x \in Indices(d) :
                   /\ TrueLabel(orig_doc, Para(d, x)) = "bullet"
                   /\ \A y \in Indices(d) :
                        (y < x /\ Para(d, y).owner = Para(d, x).owner)
                          => TrueLabel(orig_doc, Para(d, y)) # "bullet"}
  IN [paragraph_tags |->
        [k \in 1..Len(d) |->
           IF (k - 1) \in firsts THEN RoleTag(k - 1, d[k].owner)
           ELSE Tag(k - 1, TrueLabel(orig_doc, d[k]), d[k].owner)],
      role_spans |-> spans]

EnhancedTagChoices(orig_doc, d) ==
  {FaithfulTags(orig_doc, d), RoleIdTags(orig_doc, d),
   FirstBulletAsHeaderTags(orig_doc, d)}

\* ------------------------------------------------------------ the machine
VARIABLES
  scen,            \* the request: which document and tags
  orchestrated,    \* TRUE: enhance_resume calls apply_plan; FALSE: direct call
  plan,            \* the improvement plan, in the order it lists its edits
  edits,           \* the edits handed to apply_plan
  company_lines,   \* original_company_lines handed to apply_plan
  doc,             \* the in-memory document of apply_plan
  bullet_mapping,
  role_mapping,
  ordered_edits,
  i,               \* number of ordered edits handled so far
  applied,         \* plan positions of the edits handled, in handling order
  prev,            \* the document before the last handled edit
  output,          \* the saved document, <<>> while nothing is saved
  response,        \* what the classification oracle gives tag_paragraphs
  tagged,          \* what tag_paragraphs returned
  enhanced_tags,   \* the tags of the post-edit document given to evaluate
  report,          \* what evaluate returned
  files,           \* the directory of the resumes: file name -> who wrote it
  runs,            \* the apply_plan runs choosing an output path and saving
  mapping,         \* what _build_frozen_mapping returned
  rebuilt          \* what a second _build_frozen_mapping returned

vars == <<pc, scen, orchestrated, plan, edits, company_lines, doc,
          bullet_mapping, role_mapping, ordered_edits, i, applied, prev,
          output, response, tagged, enhanced_tags, report, files, runs,
          mapping, rebuilt>>

apply_vars == <<scen, orchestrated, plan, edits, company_lines, doc,
                bullet_mapping, role_mapping, ordered_edits, i, applied, prev,
                output>>
tagger_vars == <<response, tagged>>
eval_vars == <<enhanced_tags, report>>
path_vars == <<files, runs>>
map_vars == <<mapping, rebuilt>>
NotCalled == [kind |-> "not_called"]

EmptyMap == [x \in {} |-> 0]

Init ==
  /\ pc = "request"
  /\ scen \in 1..Len(Scenarios)
  /\ orchestrated \in BOOLEAN
  /\ plan \in Plans
  /\ edits = <<>>
  /\ company_lines = <<>>
  /\ doc = <<>>
  /\ bullet_mapping = EmptyMap
  /\ role_mapping = EmptyMap
  /\ ordered_edits = <<>>
  /\ i = 0
  /\ applied = <<>>
  /\ prev = <<>>
  /\ output = <<>>
  /\ response = NotCalled
  /\ tagged = NotCalled
  /\ enhanced_tags = NotCalled
  /\ report = NotCalled
  /\ files = EmptyMap
  /\ runs = EmptyMap
  /\ mapping = NotCalled
  /\ rebuilt = NotCalled

SourceDoc == Scenarios[scen].doc
StructureTags == Scenarios[scen].tags

\* enhance_resume, steps 5 and 6: freeze the mapping, enrich the plan, collect
\* the company lines
BuildMappingAndEnrich ==
  /\ pc = "request" /\ orchestrated
  /\ edits' = EnrichPlanWithMapping(plan, FrozenBulletIndexMap(StructureTags),
                                    PreImageHashes(SourceDoc, StructureTags))
  /\ company_lines' = OriginalCompanyLines
  /\ pc' = "start"
  /\ UNCHANGED tagger_vars
  /\ UNCHANGED eval_vars
  /\ UNCHANGED path_vars
  /\ UNCHANGED map_vars
  /\ UNCHANGED <<scen, orchestrated, plan, doc, bullet_mapping, role_mapping,
                 ordered_edits, i, applied, prev, output>>

\* apply_plan called with the plan as it is and without company lines
\* (test_document_editor_directly)
DirectCall ==
  /\ pc = "request" /\ ~orchestrated
  /\ edits' = plan
  /\ company_lines' = <<>>
  /\ pc' = "start"
  /\ UNCHANGED tagger_vars
  /\ UNCHANGED eval_vars
  /\ UNCHANGED path_vars
  /\ UNCHANGED map_vars
  /\ UNCHANGED <<scen, orchestrated, plan, doc, bullet_mapping, role_mapping,
                 ordered_edits, i, applied, prev, output>>

\* apply_plan: load the document, build the mappings, order the edits
LoadAndOrder ==
  /\ pc = "start"
  /\ doc' = SourceDoc
  /\ prev' = SourceDoc
  /\ bullet_mapping' = BulletMappingFor(SourceDoc, StructureTags)
  /\ role_mapping' = RoleMappingFor(SourceDoc, StructureTags)
  /\ ordered_edits' = OrderedEdits(edits)
  /\ pc' = "edits"
  /\ UNCHANGED tagger_vars
  /\ UNCHANGED eval_vars
  /\ UNCHANGED path_vars
  /\ UNCHANGED map_vars
  /\ UNCHANGED <<scen, orchestrated, plan, edits, company_lines, i, applied,
                 output>>

NextEdit == ordered_edits[i + 1]
NewId == 100 + 2 * i

\* apply_plan: one iteration of the loop over ordered_edits
HandleEdit(type_ok) ==
  /\ pc = "edits" /\ i < Len(ordered_edits)
  /\ type_ok
  /\ LET r == ApplySingleEdit(doc, NextEdit, bullet_mapping, role_mapping, NewId)
     IN /\ doc' = r.doc
        /\ pc' = IF r.raised THEN "failed" ELSE "edits"
  /\ prev' = doc
  /\ i' = i + 1
  /\ applied' = Append(applied, NextEdit.pos)
  /\ UNCHANGED tagger_vars
  /\ UNCHANGED eval_vars
  /\ UNCHANGED path_vars
  /\ UNCHANGED map_vars
  /\ UNCHANGED <<scen, orchestrated, plan, edits, company_lines,
                 bullet_mapping, role_mapping, ordered_edits, output>>

ApplyModifyBulletStep == HandleEdit(NextEdit.type = "modify_bullet")
ApplyInsertBulletStep == HandleEdit(NextEdit.type = "insert_bullet")
ApplyUpsertSkillStep == HandleEdit(NextEdit.type = "upsert_skill")
SkipUnknownEditStep ==
  HandleEdit(NextEdit.type \notin {"modify_bullet", "insert_bullet", "upsert_skill"})

\* apply_plan: the company-line post-pass
PreserveCompanyLines ==
  /\ pc = "edits" /\ i = Len(ordered_edits)
  /\ LET r == IF company_lines # <<>>
              THEN EnsureCompanyLinesPreserved(doc, role_mapping, company_lines)
              ELSE [doc |-> doc, role_mapping |-> role_mapping]
     IN /\ doc' = r.doc
        /\ role_mapping' = r.role_mapping
  /\ pc' = "save"
  /\ UNCHANGED tagger_vars
  /\ UNCHANGED eval_vars
  /\ UNCHANGED path_vars
  /\ UNCHANGED map_vars
  /\ UNCHANGED <<scen, orchestrated, plan, edits, company_lines,
                 bullet_mapping, ordered_edits, i, applied, prev, output>>

\* apply_plan: doc.save(output_path)
SaveDocument ==
  /\ pc = "save"
  /\ output' = doc
  /\ pc' = "done"
  /\ UNCHANGED tagger_vars
  /\ UNCHANGED eval_vars
  /\ UNCHANGED path_vars
  /\ UNCHANGED map_vars
  /\ UNCHANGED <<scen, orchestrated, plan, edits, company_lines, doc,
                 bullet_mapping, role_mapping, ordered_edits, i, applied, prev>>

\* enhance_resume, step 7: the post-edit document is tagged and evaluated
\* against the original tags, which carry no paragraph hashes
EvaluateStep ==
  /\ pc = "done" /\ orchestrated
  /\ \E tags \in EnhancedTagChoices(SourceDoc, output) :
       /\ enhanced_tags' = tags
       /\ report' = Evaluate(SourceDoc, output, StructureTags, tags)
  /\ pc' = "evaluated"
  /\ UNCHANGED tagger_vars
  /\ UNCHANGED path_vars
  /\ UNCHANGED map_vars
  /\ UNCHANGED apply_vars

\* evaluate called on the result of a direct apply_plan call, with the
\* hashes of the original paragraphs in original_tags
EvaluateWithHashes ==
  /\ pc = "done" /\ ~orchestrated
  /\ \E tags \in EnhancedTagChoices(SourceDoc, output) :
       /\ enhanced_tags' = tags
       /\ report' = Evaluate(SourceDoc, output,
                             WithHashes(StructureTags,
                                        ParagraphHashes(SourceDoc)),
                             tags)
  /\ pc' = "evaluated"
  /\ UNCHANGED tagger_vars
  /\ UNCHANGED path_vars
  /\ UNCHANGED map_vars
  /\ UNCHANGED apply_vars

Next ==
  \/ BuildMappingAndEnrich
  \/ DirectCall
  \/ LoadAndOrder
  \/ ApplyModifyBulletStep
  \/ ApplyInsertBulletStep
  \/ ApplyUpsertSkillStep
  \/ SkipUnknownEditStep
  \/ PreserveCompanyLines
  \/ SaveDocument
  \/ EvaluateStep
  \/ EvaluateWithHashes

Spec == Init /\ [][Next]_vars

\* ------------------------------------------- tag_paragraphs on its own
\* tag_paragraphs is called with the metadata of a document and the oracle
\* answers with any of the modelled responses
TaggerInit ==
  /\ pc = "tag"
  /\ scen \in 1..Len(Scenarios)
  /\ response \in OracleResponses
  /\ tagged = NotCalled
  /\ orchestrated = TRUE
  /\ plan = <<>>
  /\ edits = <<>>
  /\ company_lines = <<>>
  /\ doc = <<>>
  /\ bullet_mapping = EmptyMap
  /\ role_mapping = EmptyMap
  /\ ordered_edits = <<>>
  /\ i = 0
  /\ applied = <<>>
  /\ prev = <<>>
  /\ output = <<>>
  /\ enhanced_tags = NotCalled
  /\ report = NotCalled
  /\ files = EmptyMap
  /\ runs = EmptyMap
  /\ mapping = NotCalled
  /\ rebuilt = NotCalled

\* enhance_resume, step 4: tag the structure of the original document
TagParagraphsStep ==
  /\ pc = "tag"
  /\ LET r == TagParagraphs(CollectParagraphMetadata(SourceDoc), response)
     IN /\ tagged' = r.tags
        /\ pc' = IF r.raised THEN "failed" ELSE "tagged"
  /\ UNCHANGED response
  /\ UNCHANGED apply_vars
  /\ UNCHANGED eval_vars
  /\ UNCHANGED path_vars
  /\ UNCHANGED map_vars

TaggerNext == TagParagraphsStep

TaggerSpec == TaggerInit /\ [][TaggerNext]_vars

\* ------------------------------------------- the output path of apply_plan
\* the pipeline variables of a specification that does not apply a plan
ApplyIdle ==
  /\ orchestrated = TRUE
  /\ plan = <<>>
  /\ edits = <<>>
  /\ company_lines = <<>>
  /\ doc = <<>>
  /\ bullet_mapping = EmptyMap
  /\ role_mapping = EmptyMap
  /\ ordered_edits = <<>>
  /\ i = 0
  /\ applied = <<>>
  /\ prev = <<>>
  /\ output = <<>>

MaxRuns == 2
MaxCounter == 4
RunIds == 1..MaxRuns

\* path.suffix
Ext == ".docx"

\* str(counter) after the underscore
CounterTok(counter) == <<"_1", "_2", "_3", "_4", "_5">>[counter]

\* _generate_output_path: f"{path.stem}_enhanced{path.suffix}" and
\* f"{path.stem}_enhanced_{counter}{path.suffix}" (counter 0: no counter yet)
OutputName(stem, counter) ==
  stem \o <<"_enhanced">>
       \o (IF counter = 0 THEN <<>> ELSE <<CounterTok(counter)>>) \o <<Ext>>

\* the name of the input file of a run, kept in the same directory
InputName(stem) == stem \o <<Ext>>

\* the stems of the input files: a.docx and a_enhanced.docx
Stems == {<<"a">>, <<"a", "_enhanced">>}

\* the files that may lie in the directory before the runs start
EarlierOutputs ==
  {OutputName(<<"a">>, 0), OutputName(<<"a">>, 1),
   OutputName(<<"a", "_enhanced">>, 0)}

\* output_path.exists() answering False whatever the directory holds
OutputPathNeverExists(fs, output_path) == FALSE

\* output_path.exists()
OutputPathExists(fs, output_path) == output_path \in DOMAIN fs

\* a run about to call _generate_output_path, after os.path.exists(docx_path)
NewRun(stem) ==
  [pc |-> "choose", stem |-> stem, counter |-> 0, path |-> <<>>, seen |-> {}]

PathInit ==
  /\ pc = "paths"
  /\ scen = 1
  /\ ApplyIdle
  /\ response = NotCalled /\ tagged = NotCalled
  /\ enhanced_tags = NotCalled /\ report = NotCalled
  /\ mapping = NotCalled /\ rebuilt = NotCalled
  /\ runs \in [RunIds -> {NewRun(stem) : stem \in Stems}]
  /\ \E earlier \in SUBSET EarlierOutputs :
        files = [n \in earlier \cup {InputName(runs[r].stem) : r \in RunIds}
                   |-> <<>>]

\* _generate_output_path: one test of the loop "while output_path.exists()"
GenerateOutputPathStep(r) ==
  /\ runs[r].pc = "choose"
  /\ LET candidate == OutputName(runs[r].stem, runs[r].counter)
     IN IF OutputPathExists(files, candidate)
        THEN /\ runs[r].counter < MaxCounter
             /\ runs' = [runs EXCEPT ![r].counter = @ + 1]
        ELSE runs' = [runs EXCEPT ![r].pc = "save", ![r].path = candidate,
                                  ![r].seen = DOMAIN files]
  /\ UNCHANGED files

\* apply_plan: doc.save(output_path); a file keeps the list of the runs that
\* wrote it
SaveStep(r) ==
  /\ runs[r].pc = "save"
  /\ files' = [n \in DOMAIN files \cup {runs[r].path} |->
                 IF n = runs[r].path
                 THEN (IF n \in DOMAIN files THEN files[n] ELSE <<>>) \o <<r>>
                 ELSE files[n]]
  /\ runs' = [runs EXCEPT ![r].pc = "saved"]

PathNext ==
  /\ \E r \in RunIds : GenerateOutputPathStep(r) \/ SaveStep(r)
  /\ UNCHANGED <<pc, apply_vars, tagger_vars, eval_vars, map_vars>>

PathSpec == PathInit /\ [][PathNext]_vars

\* ------------------------------------- the two bullet-to-paragraph maps
\* the role spans an oracle may report, in any order: none, one or two of
\* the spans of the modelled documents, one of them reaching beyond the end
SpanChoices ==
  {Span("r1", 1, 3), Span("r2", 4, 5), Span("r2", 4, 9),
   Span("r1", 2, 4), Span("r2", 5, 6), Span("r1", 0, 3)}

MaxSpans == 2

SpanLists ==
  UNION {[1..n -> SpanChoices] : n \in 0..MaxSpans}

MappingTagChoices ==
  {[paragraph_tags |-> pt, role_spans |-> rs] :
     pt \in {TagsManual.paragraph_tags, TagsBeyondEnd.paragraph_tags,
             TagsAuto.paragraph_tags},
     rs \in SpanLists}

MappingInit ==
  /\ pc = "map"
  /\ scen \in 1..Len(Scenarios)
  /\ tagged \in MappingTagChoices
  /\ ApplyIdle
  /\ response = NotCalled
  /\ enhanced_tags = NotCalled /\ report = NotCalled
  /\ files = EmptyMap /\ runs = EmptyMap
  /\ mapping = NotCalled /\ rebuilt = NotCalled

mapping_frame ==
  <<scen, orchestrated, plan, edits, company_lines, doc, ordered_edits, i,
    applied, prev, output, tagger_vars, eval_vars, path_vars>>

\* enhance_resume, step 5: _build_frozen_mapping on the working document
BuildFrozenMappingStep ==
  /\ pc = "map"
  /\ mapping' = BuildFrozenMapping(SourceDoc, tagged)
  /\ pc' = "frozen"
  /\ UNCHANGED <<rebuilt, bullet_mapping, role_mapping, mapping_frame>>

\* _build_frozen_mapping once more, on the same document, tags and outline
RebuildFrozenMappingStep ==
  /\ pc = "frozen"
  /\ rebuilt' = BuildFrozenMapping(SourceDoc, tagged)
  /\ pc' = "rebuilt"
  /\ UNCHANGED <<mapping, bullet_mapping, role_mapping, mapping_frame>>

\* apply_plan: _build_mappings_from_tags on the same document and tags
BuildMappingsFromTagsStep ==
  /\ pc = "rebuilt"
  /\ bullet_mapping' = BulletMappingFromTags(SourceDoc, tagged)
  /\ role_mapping' = RoleMappingFromTags(SourceDoc, tagged)
  /\ pc' = "applier"
  /\ UNCHANGED <<mapping, rebuilt, mapping_frame>>

MappingNext ==
  \/ BuildFrozenMappingStep
  \/ RebuildFrozenMappingStep
  \/ BuildMappingsFromTagsStep

MappingSpec == MappingInit /\ [][MappingNext]_vars

\* ------------------------------------------------ upsert_skill on its own
\* the documents upsert_skill is applied to: the modelled resumes and their
\* beginnings (resumes without a skills section among them)
UpsertDocs ==
  UNION {{SubSeq(d, 1, n) : n \in 1..Len(d)} : d \in {DocManual, DocAuto}}

\* the upserts applied: those of the plans, and one into a bucket whose name
\* is a skills keyword
UpsertInputs == UpsertEdits \cup {UpsertSkill("Skills", "go")}

UpsertInit ==
  /\ pc = "upsert"
  /\ scen = 1
  /\ orchestrated = FALSE
  /\ doc \in UpsertDocs
  /\ prev = doc
  /\ \E e \in UpsertInputs : edits = <<e>>
  /\ plan = edits
  /\ ordered_edits = edits
  /\ company_lines = <<>>
  /\ bullet_mapping = EmptyMap
  /\ role_mapping = EmptyMap
  /\ i = 0
  /\ applied = <<>>
  /\ output = <<>>
  /\ response = NotCalled /\ tagged = NotCalled
  /\ enhanced_tags = NotCalled /\ report = NotCalled
  /\ files = EmptyMap /\ runs = EmptyMap
  /\ mapping = NotCalled /\ rebuilt = NotCalled

upsert_frame ==
  <<scen, orchestrated, plan, edits, company_lines, bullet_mapping,
    role_mapping, ordered_edits, applied, output, tagger_vars, eval_vars,
    path_vars, map_vars>>

\* _apply_upsert_skill applied to the document
UpsertOnceStep ==
  /\ pc = "upsert"
  /\ doc' = ApplyUpsertSkill(doc, edits[1], NewId).doc
  /\ prev' = doc
  /\ i' = i + 1
  /\ pc' = "once"
  /\ UNCHANGED upsert_frame

\* the same _apply_upsert_skill applied to the result
UpsertAgainStep ==
  /\ pc = "once"
  /\ doc' = ApplyUpsertSkill(doc, edits[1], NewId).doc
  /\ prev' = doc
  /\ i' = i + 1
  /\ pc' = "twice"
  /\ UNCHANGED upsert_frame

UpsertNext == UpsertOnceStep \/ UpsertAgainStep

UpsertSpec == UpsertInit /\ [][UpsertNext]_vars

\* ----------------------------------------------- apply_plan as a function
\* the loop of apply_plan over ordered_edits, from the k-th edit on
RunEdits(d0, es, bm, rm) ==
  LET RECURSIVE Go(_, _)
      Go(k, d) ==
        IF k > Len(es) THEN Outcome(d, FALSE)
        ELSE LET r == ApplySingleEdit(d, es[k], bm, rm, 100 + 2 * (k - 1))
             IN IF r.raised THEN r ELSE Go(k + 1, r.doc)
  IN Go(1, d0)

\* what a request returns for plan p: "done" and the saved document, or
\* "failed" and nothing
ApplyPlanResult(sc, orch, p) ==
  LET d0 == Scenarios[sc].doc
      tags == Scenarios[sc].tags
      handed == IF orch
                THEN EnrichPlanWithMapping(p, FrozenBulletIndexMap(tags),
                                           PreImageHashes(d0, tags))
                ELSE p
      rm == RoleMappingFor(d0, tags)
      r == RunEdits(d0, OrderedEdits(handed),
                    BulletMappingFor(d0, tags), rm)
  IN IF r.raised THEN [status |-> "failed", doc |-> <<>>]
     ELSE [status |-> "done",
           doc |-> IF orch
                   THEN EnsureCompanyLinesPreserved(r.doc, rm,
                                                    OriginalCompanyLines).doc
                   ELSE r.doc]

\* ------------------------------------------------------------ the claims
Finished == pc \in {"done", "failed"}

\* the state right after apply_plan handled an edit of the given type
JustHandled(type) ==
  /\ pc \in {"edits", "failed"} /\ i >= 1
  /\ ordered_edits[i].type = type

LastEdit == ordered_edits[i]

\* the created paragraph of the last handled edit, if it is in the document
CreatedBy(k) == {x \in 1..Len(doc) : doc[x].id = 100 + 2 * (k - 1)}

IsBullet(p) == IsBulletParagraph(p, Strip(p.text))

LeadingGlyphs(text) ==
  IF ~StartsWithAny(text, StripGlyphs) THEN 0
  ELSE IF ~StartsWithAny(LStrip(Tail(text)), StripGlyphs) THEN 1
  ELSE 2   \* two or more

\* the paragraphs of document d that belong to role r
RoleParagraphs(d, r) == {x \in 1..Len(d) : d[x].owner = r}

DuplicateFree(d) ==
  \A r \in RoleIds : \A x, y \in RoleParagraphs(d, r) :
     (x < y /\ IsBullet(d[x]) /\ IsBullet(d[y]))
       => NormalizeBulletText(d[x].text) # NormalizeBulletText(d[y].text)

OnlyInserts == \A k \in 1..Len(plan) : plan[k].type = "insert_bullet"

\* C1: after apply_plan applied a plan of insert_bullet edits, no role's
\* paragraphs contain two bullets with equal normalized text.
C1_NoDuplicateBullets ==
  (pc = "done" /\ OnlyInserts) => DuplicateFree(output)

\* the last handled edit was a modify_bullet that carried a pre-image hash
\* differing from the hash of its target's text
StaleModifyHandled ==
  /\ JustHandled("modify_bullet")
  /\ LastEdit.pre_image_hash # NoHash
  /\ ModifyTarget(LastEdit, bullet_mapping) \in Indices(prev)
  /\ Sha256(Para(prev, ModifyTarget(LastEdit, bullet_mapping)).text)
       # LastEdit.pre_image_hash

\* C2: a modify_bullet whose recorded pre-image hash differs from the hash of
\* the target paragraph's current text is skipped: no paragraph changes.
C2_StaleModifySkipped == StaleModifyHandled => (doc = prev /\ pc = "edits")

C2_Witness == StaleModifyHandled /\ doc = prev /\ doc # SourceDoc

\* C3: apply_plan never aborts midway: an edit that cannot be resolved is
\* skipped, the later edits are applied and a document is saved.
C3_NeverAborts == pc # "failed"

\* original index k is a target of some edit handed to apply_plan
Referenced(k) ==
  \E n \in 1..Len(ordered_edits) :
     LET e == ordered_edits[n]
     IN \/ e.type = "modify_bullet" /\ ModifyTarget(e, bullet_mapping) = k
        \/ /\ e.type = "insert_bullet"
           /\ \/ e.resolved_after_paragraph_index = k
              \/ GetOr(bullet_mapping, e.after_bullet_id, NoneIdx) = k
        \/ /\ e.type = "upsert_skill"
           /\ StartsWithAny(Lower(Para(SourceDoc, k).text), {LowerTok(e.bucket)})

LabelOf(k) ==
  LET hits == {n \in 1..Len(StructureTags.paragraph_tags) :
                 StructureTags.paragraph_tags[n].paragraph_index = k}
  IN IF hits = {} THEN None
     ELSE StructureTags.paragraph_tags[CHOOSE n \in hits : TRUE].label

\* C4: a paragraph of the input that no edit references and that is not
\* tagged bullet or skills_line is in the saved document with the same text.
C4_UnreferencedUnchanged ==
  pc = "done" =>
    \A k \in Indices(SourceDoc) :
       (LabelOf(k) \notin {"bullet", "skills_line"} /\ ~Referenced(k))
         => \E x \in 1..Len(output) :
               output[x].id = k /\ output[x].text = Para(SourceDoc, k).text

Reorderings(p) ==
  { [k \in 1..Len(p) |-> p[f[k]]] :
      f \in {g \in [1..Len(p) -> 1..Len(p)] :
               \A a, b \in 1..Len(p) : g[a] = g[b] => a = b} }

OfType(p, t) == SelectSeq(p, LAMBDA e : e.type = t)

SameOrderWithinTypes(p, q) ==
  \A t \in {"modify_bullet", "insert_bullet", "upsert_skill", "delete_bullet"} :
     OfType(p, t) = OfType(q, t)

ThisResult == [status |-> pc, doc |-> output]

\* C5 as stated: every reordering of the plan gives the same result.
C5_OrderIndependent ==
  Finished => \A q \in Reorderings(plan) :
                 ApplyPlanResult(scen, orchestrated, q) = ThisResult

\* C5 as amended: every reordering of the plan that keeps the edits of each
\* type in their relative order gives the same result.
C5_OrderIndependentAcrossTypes ==
  Finished => \A q \in Reorderings(plan) :
                 SameOrderWithinTypes(plan, q)
                   => ApplyPlanResult(scen, orchestrated, q) = ThisResult

C5_Witness ==
  /\ pc = "done" /\ Len(plan) >= 2 /\ output # SourceDoc
  /\ EditKey(plan[1]) > EditKey(plan[2])
  /\ \E q \in Reorderings(plan) : q # plan /\ SameOrderWithinTypes(plan, q)

TypeRank(t) ==
  CASE t = "modify_bullet" -> 1
    [] t = "insert_bullet" -> 2
    [] t = "upsert_skill" -> 3
    [] OTHER -> 4

\* C6: the edits are handled modify_bullet first, then insert_bullet, then
\* upsert_skill, edits of one type in plan order, and none is left out.
C6_FixedTypeOrder ==
  /\ \A j, k \in 1..Len(applied) :
        j < k =>
          /\ TypeRank(plan[applied[j]].type) <= TypeRank(plan[applied[k]].type)
          /\ (plan[applied[j]].type = plan[applied[k]].type
                => applied[j] < applied[k])
  /\ pc \in {"save", "done"} =>
       {applied[j] : j \in 1..Len(applied)} =
         {edits[j].pos : j \in 1..Len(edits)}

C6_Witness ==
  /\ pc = "done"
  /\ \E j, k \in 1..Len(applied) : j < k /\ applied[j] > applied[k]

\* the last handled edit inserted a paragraph into a role whose existing
\* bullets were all automatically numbered
InsertedIntoAutoSpan ==
  /\ JustHandled("insert_bullet") /\ pc = "edits"
  /\ LastEdit.role_id \in DOMAIN role_mapping
  /\ \E x \in RoleParagraphs(prev, LastEdit.role_id) : IsBullet(prev[x])
  /\ \A x \in RoleParagraphs(prev, LastEdit.role_id) :
        IsBullet(prev[x]) => prev[x].numPr
  /\ CreatedBy(i) # {}

\* C7: a bullet inserted into a span whose bullets are all automatically
\* numbered does not begin with a manual glyph, whatever glyphs the edit's
\* text begins with.
C7_NoGlyphInAutoSpan ==
  InsertedIntoAutoSpan =>
    \A x \in CreatedBy(i) : LeadingGlyphs(doc[x].text) = 0

\* the last handled edit was a modify_bullet that replaced the text of
\* paragraph ModifyTarget
ModifyApplied ==
  /\ JustHandled("modify_bullet") /\ pc = "edits"
  /\ ModifyTarget(LastEdit, bullet_mapping) \in Indices(prev)
  /\ ~PreImageMismatch(LastEdit.pre_image_hash,
                       Para(prev, ModifyTarget(LastEdit, bullet_mapping)).text)

ModifiedParagraph == Para(doc, ModifyTarget(LastEdit, bullet_mapping))

\* the recorded span of the role that owns the modified bullet has no
\* automatically numbered bullet
ModifiedInManualSpan ==
  /\ ModifyApplied
  /\ ModifiedParagraph.owner \in DOMAIN role_mapping
  /\ ~RoleUsesAutoBullets(prev, role_mapping[ModifiedParagraph.owner][1],
                          role_mapping[ModifiedParagraph.owner][2])

\* C8: modify_bullet on a bullet of a manual-glyph span leaves the paragraph
\* with exactly one leading glyph, whatever glyphs new_text begins with.
C8_SingleGlyphAfterModify ==
  ModifiedInManualSpan => LeadingGlyphs(ModifiedParagraph.text) = 1

\* the last handled edit was a modify_bullet of an automatically numbered
\* paragraph with a new_text that begins with exactly one glyph
ModifiedAutoWithOneGlyph ==
  /\ ModifyApplied
  /\ Para(prev, ModifyTarget(LastEdit, bullet_mapping)).numPr
  /\ LeadingGlyphs(LastEdit.new_text) = 1

\* C9 as stated: the text becomes new_text without the glyph and the
\* whitespace after it.
C9_GlyphStripped ==
  ModifiedAutoWithOneGlyph =>
    ModifiedParagraph.text = LStrip(Tail(LastEdit.new_text))

\* C9 as amended: the text becomes new_text without the glyph and the
\* whitespace after it, and without trailing whitespace.
C9_GlyphStrippedAndTrimmed ==
  ModifiedAutoWithOneGlyph =>
    ModifiedParagraph.text = RStrip(LStrip(Tail(LastEdit.new_text)))

C9_Witness ==
  /\ ModifiedAutoWithOneGlyph
  /\ ModifiedParagraph.text = <<"c">>
  /\ ModifiedParagraph.text # Para(prev, ModifyTarget(LastEdit, bullet_mapping)).text

\* the last handled edit was an insert_bullet whose normalized text equals
\* that of a bullet already among the paragraphs of its role
DuplicateInsertHandled ==
  /\ JustHandled("insert_bullet")
  /\ LastEdit.role_id \in DOMAIN role_mapping
  /\ \E x \in RoleParagraphs(prev, LastEdit.role_id) :
        /\ IsBullet(prev[x])
        /\ NormalizeBulletText(prev[x].text) = NormalizeBulletText(LastEdit.text)

\* C10: an insert_bullet whose normalized text equals that of a bullet
\* already in the role's span adds no paragraph and changes none.
C10_DuplicateInsertIsNoOp == DuplicateInsertHandled => doc = prev

\* ---------------------------------------------------------------- tagger
TaggerReturned == pc = "tagged"

\* C11: every tag tag_paragraphs returns has a paragraph_index inside
\* [0, N-1], N the number of input paragraphs, and one of the nine labels
C11_TagsInBoundsAndLabelled ==
  TaggerReturned =>
    \A k \in 1..Len(tagged.paragraph_tags) :
       /\ tagged.paragraph_tags[k].paragraph_index \in Indices(SourceDoc)
       /\ tagged.paragraph_tags[k].label \in Labels

\* C12: the role spans tag_paragraphs returns have start_index <= end_index
\* and do not overlap one another
C12_SpansOrderedAndDisjoint ==
  TaggerReturned =>
    /\ \A k \in 1..Len(tagged.role_spans) :
          tagged.role_spans[k].start_index <= tagged.role_spans[k].end_index
    /\ \A k, m \in 1..Len(tagged.role_spans) :
          k < m =>
            \/ tagged.role_spans[k].end_index < tagged.role_spans[m].start_index
            \/ tagged.role_spans[m].end_index < tagged.role_spans[k].start_index

\* the response is a JSON object whose keys paragraph_tags and role_spans,
\* where present, hold arrays
ExpectedShape ==
  /\ response.kind = "object"
  /\ response.paragraph_tags.kind \in {"list", "missing"}
  /\ response.role_spans.kind \in {"list", "missing"}

NothingToIterate ==
  \/ response.kind \in {"raises", "no_json_object", "unparsable"}
  \/ /\ response.kind = "object"
     /\ \/ response.paragraph_tags.kind \in {"null", "number"}
        \/ response.role_spans.kind \in {"null", "number"}

MappingsBuilt == pc = "edits" /\ i = 0

RoleSpanIndex(role_id) == CHOOSE k \in 1..Len(Roles) : Roles[k].id = role_id

\* C14: in the mappings the applier uses (from the tags, from the heuristics
\* when no role spans are given, and the frozen map of the orchestrator) the
\* paragraph index of every outline bullet lies inside the span mapped for
\* the bullet's role
C14_BulletInsideRoleSpan ==
  /\ MappingsBuilt =>
       \A k \in 1..Len(Bullets) :
          Bullets[k].id \in DOMAIN bullet_mapping =>
            /\ Bullets[k].role_id \in DOMAIN role_mapping
            /\ role_mapping[Bullets[k].role_id][1] <= bullet_mapping[Bullets[k].id]
            /\ bullet_mapping[Bullets[k].id] <= role_mapping[Bullets[k].role_id][2]
  /\ (pc = "start" /\ orchestrated) =>
       LET frozen == FrozenBulletIndexMap(StructureTags)
       IN \A k \in 1..Len(Bullets) :
            Bullets[k].id \in DOMAIN frozen =>
              LET span == StructureTags.role_spans[RoleSpanIndex(Bullets[k].role_id)]
              IN span.start_index <= frozen[Bullets[k].id]
                 /\ frozen[Bullets[k].id] <= span.end_index

\* ---------------------------------------------------------- upsert_skill
\* C15: after upsert_skill(bucket, value) the value stands in the document
\* (in the bucket's line, in a new bucket line of the skills section, or in
\* a newly created skills section)
C15_SkillPresentAfterUpsert ==
  JustHandled("upsert_skill") =>
    \E x \in 1..Len(doc) : Contains(doc[x].text, <<LastEdit.value>>)

\* ------------------------------------------------- company-line restoration
\* the company-line post-pass has run with the lines of all roles
RestorationRan == pc \in {"save", "done"} /\ company_lines # <<>>

LinePresent(d, line) ==
  \E x \in 1..Len(d) : Contains(Lower(Strip(d[x].text)), Lower(Strip(line)))

\* C16: after company-line restoration ran with one non-empty line per role,
\* every expected line is contained, ignoring case, in some paragraph of the
\* document
C16_CompanyLinesPresent ==
  RestorationRan =>
    \A k \in 1..Len(company_lines) : LinePresent(doc, company_lines[k])


\* -------------------------------------------------------------- evaluate
Evaluated == pc = "evaluated"

\* some check of the report recorded a finding
AnyFinding(rep) ==
  \/ rep.findings.duplicate_bullets # {}
  \/ rep.findings.double_bullets # {}
  \/ rep.findings.lost_bullets # {}
  \/ rep.findings.company_changes # <<>>
  \/ rep.findings.orphaned_bullets # {}
  \/ rep.findings.structural_issues # {}
  \/ rep.findings.drift # {}

\* C17: the report of evaluate has passed = FALSE exactly when one of its
\* checks recorded a finding
C17_PassedIffNoFinding ==
  Evaluated => (report.passed <=> ~AnyFinding(report))

\* the pairs (x, y) of bullet paragraphs of one role, with only paragraphs of
\* that role between them, where y repeats the normalized text of x
RepeatedBullets(d) ==
  {xy \in (1..Len(d)) \X (1..Len(d)) :
     LET x == xy[1]
         y == xy[2]
     IN /\ x < y
        /\ d[x].owner # None
        /\ \A z \in x..y : d[z].owner = d[x].owner
        /\ EvalIsBulletParagraph(d[x], Strip(d[x].text))
        /\ EvalIsBulletParagraph(d[y], Strip(d[y].text))
        /\ EvalNormalizeBulletText(Strip(d[x].text)) =
             EvalNormalizeBulletText(Strip(d[y].text))}

\* C18: when the post-edit document is tagged correctly, every bullet of a
\* role span that repeats the normalized text of an earlier bullet of the
\* span has a duplicate finding
C18_RepeatedBulletReported ==
  (Evaluated /\ enhanced_tags \in {FaithfulTags(SourceDoc, output),
                                   RoleIdTags(SourceDoc, output)})
  => \A xy \in RepeatedBullets(output) :
        \E f \in report.findings.duplicate_bullets :
           f.paragraph_index = xy[2] - 1

HashesSupplied == Evaluated /\ ~orchestrated

\* paragraph x of the post-edit document is a paragraph of the original
\* document with the text it had there
TextUnchanged(x) ==
  /\ Para(output, x).id \in Indices(SourceDoc)
  /\ Para(output, x).text = Para(SourceDoc, Para(output, x).id).text

\* paragraph x of the post-edit document is a paragraph of the original
\* document with another text
TextChanged(x) ==
  /\ Para(output, x).id \in Indices(SourceDoc)
  /\ Para(output, x).text # Para(SourceDoc, Para(output, x).id).text

\* C19: with the original hashes supplied, a paragraph whose text was not
\* changed is never reported as drift, and a paragraph that is not tagged
\* bullet or skills_line and whose text was changed is reported
C19_DriftExactlyChangedParagraphs ==
  HashesSupplied =>
    \A x \in Indices(output) :
       /\ TextUnchanged(x) => x \notin report.findings.drift
       /\ (TextChanged(x) /\ FirstLabel(enhanced_tags, x) \notin DriftAllowed)
            => x \in report.findings.drift

\* C20: the output file exists under its final name only once the evaluator
\* has finished
C20_OutputOnlyAfterEvaluation ==
  (orchestrated /\ output # <<>>) => Evaluated


\* ------------------------------------------------------- the output path
PathChosen(r) == runs[r].pc \in {"save", "saved"}

\* C21: the path a run saves to was no file when it was chosen, is not the
\* input file, and is {stem}_enhanced{ext} or the {stem}_enhanced_N{ext} of
\* the smallest N >= 1 that was unused; no input file is ever written
C21_FreshOutputPath ==
  /\ \A r \in DOMAIN runs :
        PathChosen(r) =>
          /\ runs[r].path \notin runs[r].seen
          /\ runs[r].path # InputName(runs[r].stem)
          /\ \E n \in 0..MaxCounter :
                /\ runs[r].path = OutputName(runs[r].stem, n)
                /\ \A m \in 0..(n - 1) :
                      OutputName(runs[r].stem, m) \in runs[r].seen
  /\ \A r \in DOMAIN runs : files[InputName(runs[r].stem)] = <<>>

\* a run saved under a numbered name after finding the plain name taken
C21_Witness ==
  \E r \in DOMAIN runs :
     /\ runs[r].pc = "saved"
     /\ runs[r].counter >= 1
     /\ files[runs[r].path] = <<r>>

\* C29: two concurrent runs never save to the same path: every file holds
\* the result of at most one run
C29_OneRunPerOutputFile ==
  \A n \in DOMAIN files : Len(files[n]) <= 1


\* ------------------------------------------------------ the frozen mapping
BuiltTwice == pc \in {"rebuilt", "applier"}

C28_FrozenAndApplierMapsAgree ==
  pc = "applier" =>
    /\ DOMAIN bullet_mapping = DOMAIN mapping.bullet_index_map
    /\ \A b \in DOMAIN bullet_mapping :
          bullet_mapping[b] = mapping.bullet_index_map[b]


\* ----------------------------------------------------- the insertion point
\* the last handled edit was an insert_bullet that added its paragraph
InsertAdded ==
  /\ pc = "edits" /\ i >= 1
  /\ ordered_edits[i].type = "insert_bullet"
  /\ Len(doc) = Len(prev) + 1
  /\ CreatedBy(i) # {}

\* the positions in the document of the original paragraph with the given id
PositionsOfId(d, id) == {x \in 1..Len(d) : d[x].id = id}

\* the positions after which an insert with after_bullet_id belongs: behind
\* the paragraph the bullet was mapped to, by the applier or by the
\* orchestrator
AfterBulletPositions ==
  PositionsOfId(doc, LastEdit.resolved_after_paragraph_index)
  \cup (IF LastEdit.after_bullet_id \in DOMAIN bullet_mapping
        THEN PositionsOfId(doc, bullet_mapping[LastEdit.after_bullet_id])
        ELSE {})

\* the last of a set of positions, as a set
LastPosition(xs) == {x \in xs : \A y \in xs : y <= x}

\* the positions after which an insert without after_bullet_id belongs:
\* behind the last bullet the role had before the insert, taking the role's
\* span as recorded or as the paragraphs that belong to the role
LastBulletPositions ==
  LET role_id == LastEdit.role_id
      recorded == {x \in 1..Len(prev) :
                     /\ role_mapping[role_id][1] <= x - 1
                     /\ x - 1 <= role_mapping[role_id][2]
                     /\ IsBullet(prev[x])}
      owned == {x \in RoleParagraphs(prev, role_id) : IsBullet(prev[x])}
  IN LastPosition(recorded) \cup LastPosition(owned)

\* C23: an insert_bullet with an after_bullet_id puts the new paragraph
\* right behind the paragraph of that bullet; without one, right behind the
\* last bullet paragraph of the role, whatever the plan did before
C23_InsertedBehindItsAnchor ==
  InsertAdded =>
    \A x \in CreatedBy(i) :
       IF LastEdit.after_bullet_id # None
       THEN AfterBulletPositions # {} => (x - 1) \in AfterBulletPositions
       ELSE LastBulletPositions # {} =>
              \E y \in LastBulletPositions : x > 1 /\ doc[x - 1].id = prev[y].id


\* ------------------------------------------------ company-line restoration
\* the id of the header paragraph of a role: its first paragraph in the
\* original document
HeaderId(role_id) ==
  LET xs == RoleParagraphs(SourceDoc, role_id)
  IN SourceDoc[CHOOSE x \in xs : \A y \in xs : x <= y].id

\* the company lines the restoration inserted
RestoredLines == {x \in 1..Len(doc) : doc[x].id >= 200}

\* C24: a company line the restoration inserts is the paragraph right after
\* the header paragraph of its role, whatever the plan did before
C24_CompanyLineBehindHeader ==
  pc = "save" =>
    \A x \in RestoredLines :
       x > 1 /\ doc[x - 1].id = HeaderId(doc[x].owner)


\* -------------------------------------- two modify_bullet of one bullet
\* the document after the first k ordered edits
DocAfter(k) ==
  RunEdits(SourceDoc, SubSeq(ordered_edits, 1, k), bullet_mapping,
           role_mapping).doc

\* the k-th ordered edit is an earlier modify_bullet of the bullet of the
\* last handled edit, and it changed the text of the bullet's paragraph
EarlierChangingModify(k) ==
  LET t == ModifyTarget(LastEdit, bullet_mapping)
  IN /\ k < i
     /\ ordered_edits[k].type = "modify_bullet"
     /\ ordered_edits[k].bullet_id = LastEdit.bullet_id
     /\ t \in Indices(SourceDoc)
     /\ Para(DocAfter(k), t).text # Para(DocAfter(k - 1), t).text

\* a second modify_bullet of a bullet with a recorded hash was handled after
\* a first one changed the paragraph
SecondModifyHandled ==
  /\ JustHandled("modify_bullet")
  /\ LastEdit.pre_image_hash # NoHash
  /\ \E k \in 1..(i - 1) : EarlierChangingModify(k)

\* C25: of two modify_bullet edits of one mapped bullet with a recorded
\* pre-image hash, the first in plan order is applied first and, when it
\* changed the paragraph, the second is skipped: the paragraph keeps the
\* text of the first
C25_SecondModifySkipped ==
  SecondModifyHandled =>
    /\ doc = prev
    /\ \A k \in 1..(i - 1) :
          EarlierChangingModify(k) =>
            /\ ordered_edits[k].pos < LastEdit.pos
            /\ Para(doc, ModifyTarget(LastEdit, bullet_mapping)).text =
                 ModifiedText(Para(SourceDoc,
                                   ModifyTarget(LastEdit, bullet_mapping)),
                              ordered_edits[k].new_text)

C25_Witness ==
  /\ SecondModifyHandled
  /\ LastEdit.new_text # ordered_edits[1].new_text
  /\ doc = prev


\* ------------------------------------------ what an insert_bullet removes
ParagraphIds(d) == {d[x].id : x \in 1..Len(d)}

\* C26: an insert_bullet removes no paragraph that was in the document
\* before it: the number of paragraphs stays or grows by one
C26_InsertRemovesNothingOld ==
  JustHandled("insert_bullet") =>
    /\ ParagraphIds(prev) \subseteq ParagraphIds(doc)
    /\ Len(doc) \in {Len(prev), Len(prev) + 1}


\* ------------------------------------------------------ the recorded spans
\* every recorded span of rm lies inside document d, starts at the header
\* paragraph of its role and covers the paragraphs of the role
SpansFit(d, rm) ==
  \A r \in DOMAIN rm :
     /\ 0 <= rm[r][1] /\ rm[r][1] <= rm[r][2] /\ rm[r][2] <= Len(d) - 1
     /\ Para(d, rm[r][1]).id = HeaderId(r)
     /\ \A x \in RoleParagraphs(d, r) : rm[r][1] <= x - 1 /\ x - 1 <= rm[r][2]

\* C27: the recorded role spans that fit the document when apply_plan built
\* them still fit it after every edit and after the company-line pass
C27_SpansStayFitting ==
  (pc \in {"edits", "save"}
   /\ SpansFit(SourceDoc, RoleMappingFor(SourceDoc, StructureTags)))
  => SpansFit(doc, role_mapping)


\* ------------------------------------------------- upsert_skill, repeated
Texts(d) == [x \in 1..Len(d) |-> d[x].text]

\* C30: a second upsert_skill of the same bucket and value leaves the
\* document as the first one left it
C30_UpsertIdempotent ==
  pc = "twice" => Texts(doc) = Texts(prev)

====
